---- MODULE Spec2Model ----
(***************************************************************************)
(* A model of the HTTP server repository:                                  *)
(*   - ThreadPool (src/thread-pool.cc): worker_loop, enqueue, shutdown,    *)
(*     with the queue mutex and the condition variable made explicit;      *)
(*   - the epoll reactor (HttpServer::main_loop of the reactor variant,    *)
(*     src/README.md lines 304-465) with its per-connection framing state  *)
(*     and the helpers it calls, over byte strings;                        *)
(*   - the accept-recv-respond loop of the blocking server                 *)
(*     (src/http-server.cc lines 330-353).                                 *)
(***************************************************************************)
EXTENDS Integers, Sequences, FiniteSets, TLC

(***************************************************************************)
(* Bounds of the thread-pool model.                                        *)
(***************************************************************************)
NumWorkers == 2
NumTasks == 2
NumShutdownCalls == 2

(***************************************************************************)
(* Bounds of the reactor model.                                            *)
(***************************************************************************)
\* the connections made to the server; a connection's descriptor is its number
NumClients == 2
\* into how many segments (writes of the client) a request may be split
MaxSegments == 3
\* the length of the last segment when a client of the running server splits
LastSegment == 3
\* how many routes a route table may hold when every table is examined
MaxRoutes == 2
\* how many calls of HttpServer::stop are made, the destructor's included
NumStopCalls == 2
\* how many lines a header block has when get_header_value is examined
MaxHeaderLines == 2

Workers == 1..NumWorkers
Tasks == 1..NumTasks
ShutdownCalls == 1..NumShutdownCalls
Clients == 1..NumClients
StopCalls == 1..NumStopCalls

NoThread == <<"none", 0>>
WorkerThread(w) == <<"worker", w>>
EnqueueThread(t) == <<"enqueue", t>>

VARIABLES
    \* ---- ThreadPool members ----
    stop_flag,      \* std::atomic<bool> stop_flag
    tasks,          \* std::queue<std::function<void()>> tasks
    queue_mutex,    \* the thread holding queue_mutex, or NoThread
    condition,      \* the set of workers blocked inside condition.wait
    workers,        \* the std::vector<std::thread> workers, as a sequence of ids
    joinable,       \* the workers whose std::thread is still joinable
    \* ---- control state of the threads ----
    wpc,            \* position of each worker in worker_loop
    wtask,          \* the local variable `task` of each worker (0: none)
    epc,            \* position of each enqueue call
    spc,            \* position of each shutdown call
    sidx,           \* the index of each shutdown call's join loop
    \* ---- observation (history) variables ----
    execCount,      \* how often each task's body has run
    pushOrder,      \* the tasks in the order they were put into the queue
    popOrder,       \* the tasks in the order they were taken out of the queue
    atStop,         \* the queue content at the moment stop_flag was set
    callSawStop,    \* per enqueue call: was stop_flag set when the call began
    joinCount,      \* how often each worker thread was joined
    notifyAllCount, \* how often notify_all ran
    winners         \* the shutdown calls whose compare_exchange succeeded

poolVars == <<stop_flag, tasks, queue_mutex, condition, workers, joinable,
              wpc, wtask, epc, spc, sidx, execCount, pushOrder,
              popOrder, atStop, callSawStop, joinCount, notifyAllCount, winners>>

VARIABLES
    \* ---- the clients and the kernel's side of each connection ----
    variant,        \* which server runs: "reactor" or "blocking"
    req,            \* the number of the request each client is going to send
    cstate,         \* "idle" or "connected"
    sent,           \* how many bytes of req the client has sent
    segs,           \* in how many segments it sent them
    rcvbuf,         \* the bytes received on the socket and not yet read
    peer,           \* "open", "fin" (the client closed) or "rst" (socket error)
    pendingAccept,  \* the listen backlog, as a sequence of connections
    \* ---- HttpServer ----
    routes,         \* std::vector<Route> routes
    \* ---- HttpServer::main_loop ----
    client_connections, \* std::unordered_map<int, ActiveConnData>
    epoll_interest, \* the client descriptors registered with epoll: TRUE if armed
    open_fds,       \* the client descriptors the server has not closed
    nonblocking,    \* those of them that have O_NONBLOCK set
    loop_state,     \* "running", or "terminated" by an exception leaving main_loop
    \* ---- observation (history) variables ----
    dispatched,     \* per connection: one record for every call of get_response
    delivered,      \* per connection: the bytes the server's writes put on the socket
    readEnd         \* per connection: the read that returned 0 or failed, if any

VARIABLES
    \* ---- HttpServer members and the listening socket ----
    running,        \* bool running
    server_fd,      \* int server_fd: the listening descriptor, or -1
    listen_open,    \* the listening socket is open
    listen_closes,  \* how often close was called on the listening descriptor
    \* ---- control state ----
    stop_pc,        \* position of each call of stop
    stop_fd,        \* the value of server_fd each call of stop has read
    loop_pc         \* position of the blocking main_loop: "head" or "in_accept"

stopVars == <<running, server_fd, listen_open, listen_closes, stop_pc, stop_fd>>

VARIABLES
    \* ---- a call of get_header_value ----
    lookup_headers,  \* the argument headers
    lookup_name,     \* the argument name
    lookup_done,     \* the call has been made
    view_value,      \* what the std::string_view version returned
    string_value     \* what the std::string version returned

lookupVars == <<lookup_headers, lookup_name, lookup_done, view_value, string_value>>

VARIABLES
    \* ---- a call of read_full_request on one socket ----
    rf_req,            \* the number of the request the peer sends
    rf_len,            \* how many of its bytes the peer sends
    rf_closes,         \* the peer closes after them (else it stays silent)
    rf_taken,          \* how many bytes recv has handed out so far
    request_buffer,    \* std::string request_buffer
    remaining_to_read, \* size_t remaining_to_read of read_request_body
    header_search,     \* the last header read: where its search found the
                       \* terminator, where a search of all the buffer does, and
                       \* old_size when the terminator is there
    rf_pc              \* position of the call

readVars == <<rf_req, rf_len, rf_closes, rf_taken, request_buffer,
              remaining_to_read, header_search, rf_pc>>

reactorVars ==
    <<lookupVars, readVars, stopVars, loop_pc, routes, variant, req, cstate, sent, segs,
      rcvbuf, peer, pendingAccept, client_connections, epoll_interest, open_fds,
      nonblocking, loop_state, dispatched, delivered, readEnd>>

vars == <<poolVars, reactorVars>>

(***************************************************************************)
(* ThreadPool::ThreadPool: every worker thread starts at the head of       *)
(* worker_loop; the queue is empty and stop_flag is false.                 *)
(***************************************************************************)
PoolInit ==
    /\ stop_flag = FALSE
    /\ tasks = <<>>
    /\ queue_mutex = NoThread
    /\ condition = {}
    /\ workers = [i \in 1..NumWorkers |-> i]
    /\ joinable = Workers
    /\ wpc = [w \in Workers |-> "loop"]
    /\ wtask = [w \in Workers |-> 0]
    /\ epc = [t \in Tasks |-> "idle"]
    /\ spc = [c \in ShutdownCalls |-> "idle"]
    /\ sidx = [c \in ShutdownCalls |-> 1]
    /\ execCount = [t \in Tasks |-> 0]
    /\ pushOrder = <<>>
    /\ popOrder = <<>>
    /\ atStop = <<>>
    /\ callSawStop = [t \in Tasks |-> FALSE]
    /\ joinCount = [w \in Workers |-> 0]
    /\ notifyAllCount = 0
    /\ winners = {}

histVars == <<execCount, pushOrder, popOrder, atStop, callSawStop,
              joinCount, notifyAllCount, winners>>
shutdownVars == <<spc, sidx, workers, joinable>>

(***************************************************************************)
(* Small pieces of the code, one operator each.                            *)
(***************************************************************************)
\* a wait that returns whenever the worker is woken
WaitPredicate_Always(flag, q) == TRUE

\* worker_loop, line 48: the predicate handed to condition.wait
WaitPredicate(flag, q) == flag \/ q # <<>>

\* worker_loop, line 50: if (stop_flag && tasks.empty()) return;
ExitAfterWait(flag, q) == flag /\ q = <<>>

\* worker_loop, line 54: tasks.front()
QueueFront(q) == Head(q)

\* a worker_loop that forgets tasks.pop()
QueuePop_Forgotten(q) == q

\* worker_loop, line 55: tasks.pop()
QueuePop(q) == Tail(q)

\* an enqueue that puts the new task in front of the queue
QueueEmplace_Front(q, t) == <<t>> \o q

\* enqueue, line 77: tasks.emplace(...)
QueueEmplace(q, t) == Append(q, t)

\* an enqueue that does not look at stop_flag
EnqueueRejects_Never(flag) == FALSE

\* enqueue, line 74: if (stop_flag) throw ...
EnqueueRejects(flag) == flag

\* a shutdown that stores true without comparing
CasSucceeds_Always(flag) == TRUE

\* shutdown, lines 25-26: compare_exchange_strong(expected = false, true) succeeds
CasSucceeds(flag) == flag = FALSE

\* worker_loop, line 42: while (!stop_flag)
LoopContinues(flag) == ~flag

(***************************************************************************)
(* ThreadPool::worker_loop.  A step is one access to stop_flag, to the      *)
(* mutex or to the condition variable; the statements a worker runs with   *)
(* the mutex held and without blocking form one step, since no other       *)
(* thread reads or writes `tasks` meanwhile.                               *)
(***************************************************************************)
\* line 42: the loop condition
W_LoopCheck(w) ==
    /\ wpc[w] = "loop"
    /\ wpc' = [wpc EXCEPT ![w] = IF LoopContinues(stop_flag) THEN "lock" ELSE "done"]
    /\ UNCHANGED <<stop_flag, tasks, queue_mutex, condition, wtask, epc>>
    /\ UNCHANGED <<shutdownVars, histVars>>
    /\ UNCHANGED reactorVars

\* a worker_loop whose lock lives until the end of the loop body, so the
\* task runs with the mutex held
CriticalSection_KeepsLock(w) ==
    IF ~WaitPredicate(stop_flag, tasks)
      THEN /\ wpc' = [wpc EXCEPT ![w] = "enter_wait"]
           /\ queue_mutex' = WorkerThread(w)
           /\ UNCHANGED <<tasks, wtask, popOrder>>
      ELSE IF ExitAfterWait(stop_flag, tasks)
        THEN /\ wpc' = [wpc EXCEPT ![w] = "done"]
             /\ queue_mutex' = NoThread
             /\ UNCHANGED <<tasks, wtask, popOrder>>
        ELSE IF tasks = <<>>
          THEN /\ wpc' = [wpc EXCEPT ![w] = "ub"]
               /\ queue_mutex' = WorkerThread(w)
               /\ UNCHANGED <<tasks, wtask, popOrder>>
          ELSE /\ wtask' = [wtask EXCEPT ![w] = QueueFront(tasks)]
               /\ tasks' = QueuePop(tasks)
               /\ popOrder' = Append(popOrder, QueueFront(tasks))
               /\ wpc' = [wpc EXCEPT ![w] = "exec"]
               /\ queue_mutex' = WorkerThread(w)

\* lines 48-56, with the mutex held by w: the wait predicate; if it is false
\* the worker is about to block (still holding the mutex); if it is true,
\* lines 50-56: leave if stopped and empty, else move the front task out and
\* release the mutex.  front()/pop() of an empty queue is undefined: "ub".
CriticalSection(w) ==
    IF ~WaitPredicate(stop_flag, tasks)
      THEN /\ wpc' = [wpc EXCEPT ![w] = "enter_wait"]
           /\ queue_mutex' = WorkerThread(w)
           /\ UNCHANGED <<tasks, wtask, popOrder>>
      ELSE IF ExitAfterWait(stop_flag, tasks)
        THEN /\ wpc' = [wpc EXCEPT ![w] = "done"]
             /\ queue_mutex' = NoThread
             /\ UNCHANGED <<tasks, wtask, popOrder>>
        ELSE IF tasks = <<>>
          THEN /\ wpc' = [wpc EXCEPT ![w] = "ub"]
               /\ queue_mutex' = WorkerThread(w)
               /\ UNCHANGED <<tasks, wtask, popOrder>>
          ELSE /\ wtask' = [wtask EXCEPT ![w] = QueueFront(tasks)]
               /\ tasks' = QueuePop(tasks)
               /\ popOrder' = Append(popOrder, QueueFront(tasks))
               /\ wpc' = [wpc EXCEPT ![w] = "exec"]
               /\ queue_mutex' = NoThread

\* line 46: std::unique_lock<std::mutex> lock(queue_mutex), then lines 48-56
W_Lock(w) ==
    /\ wpc[w] = "lock"
    /\ queue_mutex = NoThread
    /\ CriticalSection(w)
    /\ UNCHANGED <<stop_flag, condition, epc>>
    /\ UNCHANGED <<shutdownVars, execCount, pushOrder, atStop,
                   callSawStop, joinCount, notifyAllCount, winners>>
    /\ UNCHANGED reactorVars

\* line 48: the predicate was false: release the mutex and block, atomically
W_EnterWait(w) ==
    /\ wpc[w] = "enter_wait"
    /\ queue_mutex' = NoThread
    /\ condition' = condition \cup {w}
    /\ wpc' = [wpc EXCEPT ![w] = "waiting"]
    /\ UNCHANGED <<stop_flag, tasks, wtask, epc>>
    /\ UNCHANGED <<shutdownVars, histVars>>
    /\ UNCHANGED reactorVars

\* line 48: a condition variable may wake a waiter without any notification
W_SpuriousWake(w) ==
    /\ wpc[w] = "waiting"
    /\ w \in condition
    /\ condition' = condition \ {w}
    /\ wpc' = [wpc EXCEPT ![w] = "woken"]
    /\ UNCHANGED <<stop_flag, tasks, queue_mutex, wtask, epc>>
    /\ UNCHANGED <<shutdownVars, histVars>>
    /\ UNCHANGED reactorVars

\* line 48: a woken waiter takes the mutex again and re-evaluates the
\* predicate, then lines 50-56
W_Reacquire(w) ==
    /\ wpc[w] = "woken"
    /\ queue_mutex = NoThread
    /\ CriticalSection(w)
    /\ UNCHANGED <<stop_flag, condition, epc>>
    /\ UNCHANGED <<shutdownVars, execCount, pushOrder, atStop,
                   callSawStop, joinCount, notifyAllCount, winners>>
    /\ UNCHANGED reactorVars

\* line 59: task() runs to its end, then the loop starts over
W_Exec(w) ==
    /\ wpc[w] = "exec"
    /\ execCount' = [execCount EXCEPT ![wtask[w]] = @ + 1]
    /\ wtask' = [wtask EXCEPT ![w] = 0]
    /\ wpc' = [wpc EXCEPT ![w] = "loop"]
    /\ UNCHANGED <<stop_flag, tasks, queue_mutex, condition, epc>>
    /\ UNCHANGED <<shutdownVars, pushOrder, popOrder, atStop, callSawStop,
                   joinCount, notifyAllCount, winners>>
    /\ UNCHANGED reactorVars

WorkerStep(w) ==
    \/ W_LoopCheck(w)
    \/ W_Lock(w)
    \/ W_EnterWait(w)
    \/ W_Reacquire(w)
    \/ W_Exec(w)

(***************************************************************************)
(* ThreadPool::enqueue; call t submits task t.                             *)
(***************************************************************************)
\* lines 64-70: the call begins (the packaged task and its future are made).
\* Calls are numbered in the order in which they begin.
E_Call(t) ==
    /\ epc[t] = "idle"
    /\ \A u \in Tasks : u < t => epc[u] # "idle"
    /\ epc' = [epc EXCEPT ![t] = "lock"]
    /\ callSawStop' = [callSawStop EXCEPT ![t] = stop_flag]
    /\ UNCHANGED <<stop_flag, tasks, queue_mutex, condition, wpc, wtask>>
    /\ UNCHANGED <<shutdownVars, execCount, pushOrder, popOrder, atStop,
                   joinCount, notifyAllCount, winners>>
    /\ UNCHANGED reactorVars

\* lines 72-75: take the mutex; throw (releasing it) if the pool is stopped
E_Lock(t) ==
    /\ epc[t] = "lock"
    /\ queue_mutex = NoThread
    /\ IF EnqueueRejects(stop_flag)
         THEN /\ epc' = [epc EXCEPT ![t] = "failed"]
              /\ UNCHANGED queue_mutex
         ELSE /\ epc' = [epc EXCEPT ![t] = "emplace"]
              /\ queue_mutex' = EnqueueThread(t)
    /\ UNCHANGED <<stop_flag, tasks, condition, wpc, wtask>>
    /\ UNCHANGED <<shutdownVars, histVars>>
    /\ UNCHANGED reactorVars

\* lines 77-78: tasks.emplace(...), then the end of the scope of `lock`
E_Emplace(t) ==
    /\ epc[t] = "emplace"
    /\ tasks' = QueueEmplace(tasks, t)
    /\ pushOrder' = Append(pushOrder, t)
    /\ queue_mutex' = NoThread
    /\ epc' = [epc EXCEPT ![t] = "notify"]
    /\ UNCHANGED <<stop_flag, condition, wpc, wtask>>
    /\ UNCHANGED <<shutdownVars, execCount, popOrder, atStop,
                   callSawStop, joinCount, notifyAllCount, winners>>
    /\ UNCHANGED reactorVars

\* lines 79-80: condition.notify_one() wakes one waiter, if there is one
E_NotifyOne(t) ==
    /\ epc[t] = "notify"
    /\ epc' = [epc EXCEPT ![t] = "returned"]
    /\ IF condition = {}
         THEN UNCHANGED <<condition, wpc>>
         ELSE \E w \in condition :
                /\ condition' = condition \ {w}
                /\ wpc' = [wpc EXCEPT ![w] = "woken"]
    /\ UNCHANGED <<stop_flag, tasks, queue_mutex, wtask>>
    /\ UNCHANGED <<shutdownVars, histVars>>
    /\ UNCHANGED reactorVars

EnqueueStep(t) ==
    \/ E_Lock(t)
    \/ E_Emplace(t)
    \/ E_NotifyOne(t)

(***************************************************************************)
(* ThreadPool::shutdown; the destructor's call is one of the calls.        *)
(***************************************************************************)
\* lines 25-28: the compare-exchange on stop_flag; the loser returns.
\* Calls are numbered in the order of their compare-exchange.
S_Cas(c) ==
    /\ spc[c] = "idle"
    /\ \A d \in ShutdownCalls : d < c => spc[d] # "idle"
    /\ IF CasSucceeds(stop_flag)
         THEN /\ stop_flag' = TRUE
              /\ spc' = [spc EXCEPT ![c] = "notify"]
              /\ winners' = winners \cup {c}
              /\ atStop' = tasks
         ELSE /\ spc' = [spc EXCEPT ![c] = "returned"]
              /\ UNCHANGED <<stop_flag, winners, atStop>>
    /\ UNCHANGED <<tasks, queue_mutex, condition, wpc, wtask, epc>>
    /\ UNCHANGED <<sidx, workers, joinable>>
    /\ UNCHANGED <<execCount, pushOrder, popOrder, callSawStop,
                   joinCount, notifyAllCount>>
    /\ UNCHANGED reactorVars

\* line 30: condition.notify_all() wakes every thread blocked in the wait
S_NotifyAll(c) ==
    /\ spc[c] = "notify"
    /\ condition' = {}
    /\ wpc' = [w \in Workers |-> IF w \in condition THEN "woken" ELSE wpc[w]]
    /\ notifyAllCount' = notifyAllCount + 1
    /\ spc' = [spc EXCEPT ![c] = "join"]
    /\ sidx' = [sidx EXCEPT ![c] = 1]
    /\ UNCHANGED <<stop_flag, tasks, queue_mutex, wtask, epc, workers, joinable>>
    /\ UNCHANGED <<execCount, pushOrder, popOrder, atStop, callSawStop,
                   joinCount, winners>>
    /\ UNCHANGED reactorVars

\* lines 32-36: the next element of `workers`: if (worker.joinable())
\* worker.join(), which returns once that worker's thread has ended.  Only
\* the thread in the join loop looks at `workers`, so the test and the join
\* are one step.
S_Join(c) ==
    /\ spc[c] = "join"
    /\ sidx[c] <= Len(workers)
    /\ IF workers[sidx[c]] \in joinable
         THEN /\ wpc[workers[sidx[c]]] = "done"
              /\ joinable' = joinable \ {workers[sidx[c]]}
              /\ joinCount' = [joinCount EXCEPT ![workers[sidx[c]]] = @ + 1]
         ELSE UNCHANGED <<joinable, joinCount>>
    /\ sidx' = [sidx EXCEPT ![c] = @ + 1]
    /\ UNCHANGED <<stop_flag, tasks, queue_mutex, condition, wpc, wtask, epc,
                   workers, spc>>
    /\ UNCHANGED <<execCount, pushOrder, popOrder, atStop, callSawStop,
                   notifyAllCount, winners>>
    /\ UNCHANGED reactorVars

\* lines 37-39: workers.clear(), and the call returns
S_Clear(c) ==
    /\ spc[c] = "join"
    /\ sidx[c] > Len(workers)
    /\ workers' = <<>>
    /\ spc' = [spc EXCEPT ![c] = "returned"]
    /\ UNCHANGED <<stop_flag, tasks, queue_mutex, condition, wpc, wtask, epc,
                   sidx, joinable>>
    /\ UNCHANGED histVars
    /\ UNCHANGED reactorVars

ShutdownStep(c) ==
    \/ S_NotifyAll(c)
    \/ S_Join(c)
    \/ S_Clear(c)

(***************************************************************************)
(* Byte strings.  A std::string or std::string_view is a sequence of       *)
(* bytes; a byte is a one-character string or one of the four tokens       *)
(* below.  Positions are counted from 0, as in the code.                   *)
(***************************************************************************)
CR == "CR"
LF == "LF"
SP == "SP"
HT == "HT"

\* std::string::npos.  A size_t value v is written v when it is small and
\* v - 2^64 when it is close to 2^64, so that unsigned addition and
\* subtraction are the integer ones and npos, 2^64 - 1, is -1.
NPOS == -1

\* a < b and a >= b on size_t values written that way
ULess(a, b) ==
    IF a >= 0 /\ b >= 0 THEN a < b
    ELSE IF a < 0 /\ b < 0 THEN a < b
    ELSE a >= 0

UGreaterEq(a, b) == ~ULess(a, b)

Range(q) == {q[i] : i \in 1..Len(q)}

MinOf(S) == CHOOSE x \in S : \A y \in S : x <= y

\* s[i]
CharAt(s, i) == s[i + 1]

\* does pat occur in s at position i
OccursAt(s, pat, i) ==
    /\ i >= 0
    /\ i + Len(pat) <= Len(s)
    /\ \A k \in 1..Len(pat) : s[i + k] = pat[k]

\* s.find(pat, from): the first position >= from where pat occurs, or npos
Find(s, pat, from) ==
    IF from < 0 THEN NPOS
    ELSE LET hits == {i \in from..(Len(s) - Len(pat)) : OccursAt(s, pat, i)}
         IN  IF hits = {} THEN NPOS ELSE MinOf(hits)

\* s.substr(pos, count) for pos <= s.size(): count is clipped to the rest
Substr(s, pos, count) ==
    LET rest == Len(s) - pos
        n == IF ULess(count, rest) THEN count ELSE rest
    IN  SubSeq(s, pos + 1, pos + n)

UpperCase ==
    <<"A", "B", "C", "D", "E", "F", "G", "H", "I", "J", "K", "L", "M",
      "N", "O", "P", "Q", "R", "S", "T", "U", "V", "W", "X", "Y", "Z">>

LowerCase ==
    <<"a", "b", "c", "d", "e", "f", "g", "h", "i", "j", "k", "l", "m",
      "n", "o", "p", "q", "r", "s", "t", "u", "v", "w", "x", "y", "z">>

\* std::tolower
ToLower(b) ==
    IF \E i \in 1..26 : UpperCase[i] = b
      THEN LowerCase[CHOOSE i \in 1..26 : UpperCase[i] = b]
      ELSE b

DecimalDigits == <<"0", "1", "2", "3", "4", "5", "6", "7", "8", "9">>

IsDigit(b) == \E i \in 1..10 : DecimalDigits[i] = b

DigitValue(b) == (CHOOSE i \in 1..10 : DecimalDigits[i] = b) - 1

\* std::isspace, for the bytes of the model
IsSpace(b) == b \in {SP, HT, CR, LF}

Str_CRLF ==
    <<CR, LF>>

Str_CRLFCRLF ==
    <<CR, LF, CR, LF>>

Str_chunked ==
    <<"c", "h", "u", "n", "k", "e", "d">>

Str_TransferEncoding ==
    <<"T", "r", "a", "n", "s", "f", "e", "r", "-", "E", "n", "c", "o", "d",
      "i", "n", "g">>

Str_ContentLength ==
    <<"C", "o", "n", "t", "e", "n", "t", "-", "L", "e", "n", "g", "t", "h">>

Str_LastChunk ==
    <<"0", CR, LF, CR, LF>>

Str_CRLFLastChunk ==
    <<CR, LF, "0", CR, LF, CR, LF>>

Str_POST ==
    <<"P", "O", "S", "T">>

Str_GET ==
    <<"G", "E", "T">>

Str_status ==
    <<"/", "s", "t", "a", "t", "u", "s">>

Str_slow ==
    <<"/", "s", "l", "o", "w">>


(***************************************************************************)
(* The helpers of the reactor (src/README.md).                             *)
(***************************************************************************)
\* get_header_value(std::string_view, std::string_view), lines 111-116:
\* the line at pos starts with name, compared case-insensitively
NameMatches(headers, name, pos) ==
    \A i \in 0..(Len(name) - 1) :
        ToLower(CharAt(headers, pos + i)) = ToLower(CharAt(name, i))

\* lines 122-126: skip the blanks and tabs that follow the colon
SkipBlanks(headers, from, end) ==
    MinOf({i \in from..end : i = end \/ CharAt(headers, i) \notin {SP, HT}})

\* lines 102-133: the loop over the lines, from the line that starts at pos
RECURSIVE HeaderScan(_, _, _)
HeaderScan(headers, name, pos) ==
    IF ~(pos < Len(headers)) THEN <<>>
    ELSE LET end == Find(headers, Str_CRLF, pos)
             colon_idx == pos + Len(name)
         IN  IF end = NPOS THEN <<>>
             ELSE IF /\ end - pos >= Len(name)
                     /\ NameMatches(headers, name, pos)
                     /\ colon_idx < end
                     /\ CharAt(headers, colon_idx) = ":"
               THEN LET val_start == SkipBlanks(headers, colon_idx + 1, end)
                    IN  Substr(headers, val_start, end - val_start)
               ELSE HeaderScan(headers, name, end + 2)

\* std::string_view get_header_value(headers, name): "" if there is none
get_header_value(headers, name) == HeaderScan(headers, name, 0)

\* get_header_value(const std::string &, const std::string &) of
\* src/http-server.cc, lines 60-61: search_name is name in lower case
LowerCaseOf(name) == [i \in 1..Len(name) |-> ToLower(name[i])]

\* lines 59-90: the first occurrence of search_name anywhere in headers, as
\* it stands; the first colon from the last byte of that occurrence on; the
\* blanks and tabs after it; the value ends at the next CRLF
get_header_value_string(headers, name) ==
    LET search_name == LowerCaseOf(name)
        pos == Find(headers, search_name, 0)
        start == pos + Len(search_name)
        colon_pos == Find(headers, <<":">>, start - 1)
        value_start == SkipBlanks(headers, colon_pos + 1, Len(headers))
        end == Find(headers, Str_CRLF, value_start)
    IN  IF pos = NPOS THEN <<>>
        ELSE IF colon_pos = NPOS THEN <<>>
        ELSE IF end = NPOS THEN <<>>
        ELSE Substr(headers, value_start, end - value_start)

\* a search that knows only the terminator that follows a chunk
body_contains_chunked_terminator_Case2Only(msg, header_end) ==
    IF Len(msg) < header_end THEN FALSE
    ELSE Find(msg, Str_CRLFLastChunk, header_end) # NPOS

\* body_contains_chunked_terminator(msg, header_end)
body_contains_chunked_terminator(msg, header_end) ==
    IF Len(msg) < header_end THEN FALSE
    ELSE IF /\ Len(msg) >= header_end + 5
            /\ Substr(msg, header_end, 5) = Str_LastChunk
      THEN TRUE
      ELSE Find(msg, Str_CRLFLastChunk, header_end) # NPOS

RECURSIVE DecimalValue(_)
DecimalValue(ds) ==
    IF ds = <<>> THEN 0
    ELSE DecimalValue(SubSeq(ds, 1, Len(ds) - 1)) * 10 + DigitValue(ds[Len(ds)])

\* ULONG_MAX = 2^64 - 1 = 18446744073709551615, as its digits; the number
\* made of its last nine digits
ULongMaxDigits ==
    <<"1", "8", "4", "4", "6", "7", "4", "4", "0", "7", "3", "7", "0", "9",
      "5", "5", "1", "6", "1", "5">>

ULongMaxTail == 709551615

\* the digits without their leading zeros
RECURSIVE StripZeros(_)
StripZeros(ds) ==
    IF ds # <<>> /\ ds[1] = "0" THEN StripZeros(Tail(ds)) ELSE ds

\* a < b for two numbers of as many digits
DigitsLess(a, b) ==
    \E i \in 1..Len(a) :
        /\ DigitValue(a[i]) < DigitValue(b[i])
        /\ \A k \in 1..(i - 1) : a[k] = b[k]

\* the number is greater than ULONG_MAX
OutOfRange(ds) ==
    \/ Len(ds) > Len(ULongMaxDigits)
    \/ Len(ds) = Len(ULongMaxDigits) /\ DigitsLess(ULongMaxDigits, ds)

\* the size_t value of a number that is not out of range, written as NPOS
\* is: a number of up to nine digits is itself, a number v that has its
\* first eleven digits in common with ULONG_MAX is v - 2^64.  (No request of
\* the model carries a number between the two.)
UnsignedValue(ds) ==
    IF Len(ds) = Len(ULongMaxDigits) /\ SubSeq(ds, 1, 11) = SubSeq(ULongMaxDigits, 1, 11)
      THEN DecimalValue(SubSeq(ds, 12, 20)) - ULongMaxTail - 1
      ELSE DecimalValue(ds)

\* std::stoul(str): white space, an optional sign, then decimal digits as far
\* as they go; std::invalid_argument if there is no digit, std::out_of_range
\* if the number is greater than ULONG_MAX; a negative number is negated as
\* unsigned long.
stoul(str) ==
    LET n == Len(str)
        start == MinOf({i \in 0..n : i = n \/ ~IsSpace(CharAt(str, i))})
        signed == start < n /\ CharAt(str, start) \in {"+", "-"}
        first == IF signed THEN start + 1 ELSE start
        stop == MinOf({i \in first..n : i = n \/ ~IsDigit(CharAt(str, i))})
        ds == StripZeros(SubSeq(str, first + 1, stop))
    IN  IF stop = first \/ OutOfRange(ds)
          THEN [thrown |-> TRUE, value |-> 0]
          ELSE [thrown |-> FALSE,
                value |-> IF signed /\ CharAt(str, start) = "-"
                            THEN 0 - UnsignedValue(ds)
                            ELSE UnsignedValue(ds)]

\* struct ActiveConnData, as its constructor leaves it
ActiveConnData ==
    [msg |-> <<>>, header_end_pos |-> 0, req_type |-> "UNKNOWN", content_length |-> 0]

\* a reactor that keeps only the bytes of the last read
AppendBytes_Overwrite(msg, bytes) == bytes

\* main_loop, line 353: active_data.msg.append(buffer, bytes_read)
AppendBytes(msg, bytes) == msg \o bytes

\* main_loop, lines 383-424 (req_type is UNKNOWN): look for the end of the
\* headers and pick the framing.  outcome "rearm": header incomplete, wait
\* for the next event; "throw": std::stoul threw, and nothing in main_loop
\* catches it; "known": the framing is known.
DetectFraming(d) ==
    LET header_pos == Find(d.msg, Str_CRLFCRLF, 0)
        headers == Substr(d.msg, 0, header_pos + 2)
        te == get_header_value(headers, Str_TransferEncoding)
        cl == get_header_value(headers, Str_ContentLength)
        h == [d EXCEPT !.header_end_pos = header_pos + 4]
    IN  IF header_pos = NPOS
          THEN [data |-> d, outcome |-> "rearm"]
        ELSE IF Find(te, Str_chunked, 0) # NPOS
          THEN [data |-> [h EXCEPT !.req_type = "CHUNKED"], outcome |-> "known"]
        ELSE IF cl # <<>>
          THEN IF stoul(cl).thrown
                 THEN [data |-> [h EXCEPT !.req_type = "CONTENT_LENGTH"],
                       outcome |-> "throw"]
                 ELSE [data |-> [h EXCEPT !.req_type = "CONTENT_LENGTH",
                                          !.content_length = stoul(cl).value],
                       outcome |-> "known"]
        ELSE [data |-> [h EXCEPT !.req_type = "NO_BODY"], outcome |-> "known"]

\* main_loop, lines 426-440: request_is_complete
RequestIsComplete(d) ==
    IF d.req_type = "CONTENT_LENGTH"
      THEN UGreaterEq(Len(d.msg), d.header_end_pos + d.content_length)
    ELSE IF d.req_type = "CHUNKED"
      THEN body_contains_chunked_terminator(d.msg, d.header_end_pos)
    ELSE d.req_type = "NO_BODY"

\* a reactor that keeps in content_length the bytes still missing
ProcessData_CountDown(d, bytes) ==
    LET d1 == [d EXCEPT !.msg = AppendBytes(d.msg, bytes)]
        f == IF d1.req_type = "UNKNOWN"
               THEN DetectFraming(d1)
               ELSE [data |-> [d1 EXCEPT !.content_length = @ - Len(bytes)],
                     outcome |-> "known"]
    IN  IF f.outcome # "known" THEN f
        ELSE [data |-> f.data,
              outcome |-> IF RequestIsComplete(f.data) THEN "complete" ELSE "rearm"]

\* main_loop, lines 353 and 383-461: what one client event does with the
\* connection's state when its reads brought `bytes` and the connection is
\* not closing.  outcome "complete": the request is dispatched; "rearm": the
\* descriptor is armed again and the state kept; "throw": see DetectFraming.
ProcessData(d, bytes) ==
    LET d1 == [d EXCEPT !.msg = AppendBytes(d.msg, bytes)]
        f == IF d1.req_type = "UNKNOWN"
               THEN DetectFraming(d1)
               ELSE [data |-> d1, outcome |-> "known"]
    IN  IF f.outcome # "known" THEN f
        ELSE [data |-> f.data,
              outcome |-> IF RequestIsComplete(f.data) THEN "complete" ELSE "rearm"]

\* parse_http_request, lines 202-218
parse_http_request(request) ==
    LET method_end == Find(request, <<SP>>, 0)
        path_end == Find(request, <<SP>>, method_end + 1)
        version_end == Find(request, Str_CRLF, path_end + 1)
        body_start == Find(request, Str_CRLFCRLF, 0)
    IN  [method |-> Substr(request, 0, method_end),
         path |-> Substr(request, method_end + 1, path_end - method_end - 1),
         version |-> Substr(request, path_end + 1, version_end - path_end - 1),
         body |-> IF body_start # NPOS
                    THEN Substr(request, body_start + 4, NPOS)
                    ELSE <<>>]

\* the routes main() adds with add_endpoint, in their order
MainRoutes ==
    <<[method |-> Str_GET, path |-> Str_status, handler |-> "handle_fast_check"],
      [method |-> Str_GET, path |-> Str_slow, handler |-> "handle_slow_task"]>>

\* HttpServer::add_endpoint: routes.emplace_back(method, path, handler)
add_endpoint(table, method, path, handler) ==
    Append(table, [method |-> method, path |-> path, handler |-> handler])

\* the response get_response starts with (lines 289-293)
Str_NotFoundResponse ==
    <<"H", "T", "T", "P", "/", "1", ".", "1", SP, "4", "0", "4", SP, "N",
      "o", "t", SP, "F", "o", "u", "n", "d", CR, LF, "C", "o", "n", "t",
      "e", "n", "t", "-", "T", "y", "p", "e", ":", SP, "t", "e", "x", "t",
      "/", "p", "l", "a", "i", "n", CR, LF, "C", "o", "n", "t", "e", "n",
      "t", "-", "L", "e", "n", "g", "t", "h", ":", SP, "1", "3", CR, LF,
      CR, LF, "4", "0", "4", SP, "N", "o", "t", SP, "F", "o", "u", "n", "d">>

\* what handle_fast_check and handle_slow_task return, whatever the method
\* and the path (the length of the content is written in decimal)
Str_FastCheckResponse ==
    <<"H", "T", "T", "P", "/", "1", ".", "1", SP, "2", "0", "0", SP, "O",
      "K", CR, LF, "C", "o", "n", "t", "e", "n", "t", "-", "T", "y", "p",
      "e", ":", SP, "t", "e", "x", "t", "/", "p", "l", "a", "i", "n", CR,
      LF, "C", "o", "n", "t", "e", "n", "t", "-", "L", "e", "n", "g", "t",
      "h", ":", SP, "1", "0", CR, LF, "C", "o", "n", "n", "e", "c", "t",
      "i", "o", "n", ":", SP, "c", "l", "o", "s", "e", CR, LF, CR, LF, "S",
      "t", "a", "t", "u", "s", ":", SP, "O", "K">>

Str_SlowTaskResponse ==
    <<"H", "T", "T", "P", "/", "1", ".", "1", SP, "2", "0", "0", SP, "O",
      "K", CR, LF, "C", "o", "n", "t", "e", "n", "t", "-", "T", "y", "p",
      "e", ":", SP, "t", "e", "x", "t", "/", "p", "l", "a", "i", "n", CR,
      LF, "C", "o", "n", "t", "e", "n", "t", "-", "L", "e", "n", "g", "t",
      "h", ":", SP, "3", "2", CR, LF, "C", "o", "n", "n", "e", "c", "t",
      "i", "o", "n", ":", SP, "c", "l", "o", "s", "e", CR, LF, CR, LF, "T",
      "a", "s", "k", SP, "c", "o", "m", "p", "l", "e", "t", "e", SP, "a",
      "f", "t", "e", "r", SP, "5", "0", "0", "m", "s", SP, "d", "e", "l",
      "a", "y", ".">>

handle_fast_check(method, path) == Str_FastCheckResponse

handle_slow_task(method, path) == Str_SlowTaskResponse

\* route.handler(method, path): the handler returns a response or throws
\* ("handler_that_throws" stands for a handler that raises an exception)
CallHandler(handler, method, path) ==
    IF handler = "handle_fast_check"
      THEN [thrown |-> FALSE, response |-> handle_fast_check(method, path)]
    ELSE IF handler = "handle_slow_task"
      THEN [thrown |-> FALSE, response |-> handle_slow_task(method, path)]
    ELSE [thrown |-> TRUE, response |-> <<>>]

\* a loop that goes through all the routes and keeps the last match
MatchingRoute_Last(hits) == CHOOSE x \in hits : \A y \in hits : y <= x

\* lines 294-299: the loop stops at the first route that matches
MatchingRoute(hits) == MinOf(hits)

\* HttpServer::get_response, lines 286-302: the first route whose method and
\* path are those of the request answers; if there is none, the 404
\* response.  handler is the handler that was called, thrown says that it
\* threw (nothing in get_response catches that).
get_response(request) ==
    LET http_request == parse_http_request(request)
        hits == {i \in 1..Len(routes) :
                    /\ routes[i].method = http_request.method
                    /\ routes[i].path = http_request.path}
    IN  IF hits = {}
          THEN [handler |-> "none", thrown |-> FALSE,
                response |-> Str_NotFoundResponse]
          ELSE LET route == routes[MatchingRoute(hits)]
                   r == CallHandler(route.handler, http_request.method,
                                    http_request.path)
               IN  [handler |-> route.handler, thrown |-> r.thrown,
                    response |-> r.response]

(***************************************************************************)
(* The requests the clients of the model send.                             *)
(***************************************************************************)
Req_GetStatus ==
    <<"G", "E", "T", SP, "/", "s", "t", "a", "t", "u", "s", SP, "H", "T",
      "T", "P", "/", "1", ".", "1", CR, LF, "H", "o", "s", "t", ":", SP,
      "x", CR, LF, CR, LF>>

Req_PostHello ==
    <<"P", "O", "S", "T", SP, "/", "e", "c", "h", "o", SP, "H", "T", "T",
      "P", "/", "1", ".", "1", CR, LF, "C", "o", "n", "t", "e", "n", "t",
      "-", "L", "e", "n", "g", "t", "h", ":", SP, "5", CR, LF, CR, LF, "h",
      "e", "l", "l", "o">>

Req_PostLowerCase ==
    <<"P", "O", "S", "T", SP, "/", "e", "c", "h", "o", SP, "H", "T", "T",
      "P", "/", "1", ".", "1", CR, LF, "c", "o", "n", "t", "e", "n", "t",
      "-", "l", "e", "n", "g", "t", "h", ":", HT, "5", CR, LF, CR, LF, "h",
      "e", "l", "l", "o">>

Req_PostShort ==
    <<"P", "O", "S", "T", SP, "/", "e", "c", "h", "o", SP, "H", "T", "T",
      "P", "/", "1", ".", "1", CR, LF, "C", "o", "n", "t", "e", "n", "t",
      "-", "L", "e", "n", "g", "t", "h", ":", SP, "5", CR, LF, CR, LF, "h",
      "e">>

Req_PostLong ==
    <<"P", "O", "S", "T", SP, "/", "e", "c", "h", "o", SP, "H", "T", "T",
      "P", "/", "1", ".", "1", CR, LF, "C", "o", "n", "t", "e", "n", "t",
      "-", "L", "e", "n", "g", "t", "h", ":", SP, "2", CR, LF, CR, LF, "h",
      "e", "l", "l", "o">>

Req_PostNoLength ==
    <<"P", "O", "S", "T", SP, "/", "e", "c", "h", "o", SP, "H", "T", "T",
      "P", "/", "1", ".", "1", CR, LF, "C", "o", "n", "t", "e", "n", "t",
      "-", "L", "e", "n", "g", "t", "h", ":", SP, CR, LF, CR, LF, "h", "e",
      "l", "l", "o">>

Req_PostBadLength ==
    <<"P", "O", "S", "T", SP, "/", "e", "c", "h", "o", SP, "H", "T", "T",
      "P", "/", "1", ".", "1", CR, LF, "C", "o", "n", "t", "e", "n", "t",
      "-", "L", "e", "n", "g", "t", "h", ":", SP, "a", "b", "c", CR, LF,
      CR, LF, "h", "e", "l", "l", "o">>

Req_PostNegativeLength ==
    <<"P", "O", "S", "T", SP, "/", "e", "c", "h", "o", SP, "H", "T", "T",
      "P", "/", "1", ".", "1", CR, LF, "C", "o", "n", "t", "e", "n", "t",
      "-", "L", "e", "n", "g", "t", "h", ":", SP, "-", "1", CR, LF, CR, LF,
      "h", "e", "l", "l", "o">>

Req_PostZeroLength ==
    <<"P", "O", "S", "T", SP, "/", "e", "c", "h", "o", SP, "H", "T", "T",
      "P", "/", "1", ".", "1", CR, LF, "C", "o", "n", "t", "e", "n", "t",
      "-", "L", "e", "n", "g", "t", "h", ":", SP, "0", CR, LF, CR, LF>>

Req_PostHugeLength ==
    <<"P", "O", "S", "T", SP, "/", "e", "c", "h", "o", SP, "H", "T", "T",
      "P", "/", "1", ".", "1", CR, LF, "C", "o", "n", "t", "e", "n", "t",
      "-", "L", "e", "n", "g", "t", "h", ":", SP, "1", "8", "4", "4", "6",
      "7", "4", "4", "0", "7", "3", "7", "0", "9", "5", "5", "1", "6", "1",
      "5", CR, LF, CR, LF, "h", "e", "l", "l", "o">>

Req_ChunkedHello ==
    <<"P", "O", "S", "T", SP, "/", "e", "c", "h", "o", SP, "H", "T", "T",
      "P", "/", "1", ".", "1", CR, LF, "T", "r", "a", "n", "s", "f", "e",
      "r", "-", "E", "n", "c", "o", "d", "i", "n", "g", ":", SP, "c", "h",
      "u", "n", "k", "e", "d", CR, LF, CR, LF, "5", CR, LF, "h", "e", "l",
      "l", "o", CR, LF, "0", CR, LF, CR, LF>>

Req_ChunkedEmpty ==
    <<"P", "O", "S", "T", SP, "/", "e", "c", "h", "o", SP, "H", "T", "T",
      "P", "/", "1", ".", "1", CR, LF, "T", "r", "a", "n", "s", "f", "e",
      "r", "-", "E", "n", "c", "o", "d", "i", "n", "g", ":", SP, "c", "h",
      "u", "n", "k", "e", "d", CR, LF, CR, LF, "0", CR, LF, CR, LF>>

Req_ChunkedPayloadTerminator ==
    <<"P", "O", "S", "T", SP, "/", "e", "c", "h", "o", SP, "H", "T", "T",
      "P", "/", "1", ".", "1", CR, LF, "T", "r", "a", "n", "s", "f", "e",
      "r", "-", "E", "n", "c", "o", "d", "i", "n", "g", ":", SP, "c", "h",
      "u", "n", "k", "e", "d", CR, LF, CR, LF, "7", CR, LF, CR, LF, "0",
      CR, LF, CR, LF, CR, LF, "0", CR, LF, CR, LF>>

Req_ChunkedSixteen ==
    <<"P", "O", "S", "T", SP, "/", "e", "c", "h", "o", SP, "H", "T", "T",
      "P", "/", "1", ".", "1", CR, LF, "T", "r", "a", "n", "s", "f", "e",
      "r", "-", "E", "n", "c", "o", "d", "i", "n", "g", ":", SP, "c", "h",
      "u", "n", "k", "e", "d", CR, LF, CR, LF, "1", "0", CR, LF, CR, LF,
      "a", "b", "c", "d", "e", "f", "g", "h", "i", "j", "k", "l", "m", "n",
      CR, LF, "0", CR, LF, CR, LF>>

Req_Pipelined ==
    <<"G", "E", "T", SP, "/", "s", "t", "a", "t", "u", "s", SP, "H", "T",
      "T", "P", "/", "1", ".", "1", CR, LF, CR, LF, "G", "E", "T", SP, "/",
      "s", "l", "o", "w", SP, "H", "T", "T", "P", "/", "1", ".", "1", CR,
      LF, CR, LF>>

Req_HeadersUnfinished ==
    <<"G", "E", "T", SP, "/", "s", "t", "a", "t", "u", "s", SP, "H", "T",
      "T", "P", "/", "1", ".", "1", CR, LF, "H", "o", "s", "t", ":", SP,
      "x", CR, LF>>

Req_GetSlow ==
    <<"G", "E", "T", SP, "/", "s", "l", "o", "w", SP, "H", "T", "T", "P",
      "/", "1", ".", "1", CR, LF, CR, LF>>

Req_PostStatus ==
    <<"P", "O", "S", "T", SP, "/", "s", "t", "a", "t", "u", "s", SP, "H",
      "T", "T", "P", "/", "1", ".", "1", CR, LF, CR, LF>>

Req_GetStatusCapital ==
    <<"G", "E", "T", SP, "/", "S", "t", "a", "t", "u", "s", SP, "H", "T",
      "T", "P", "/", "1", ".", "1", CR, LF, CR, LF>>

Req_GetStatusSlash ==
    <<"G", "E", "T", SP, "/", "s", "t", "a", "t", "u", "s", "/", SP, "H",
      "T", "T", "P", "/", "1", ".", "1", CR, LF, CR, LF>>

\* #define BUFFER_SIZE (src/http-server.h, line 185) and #define
\* MAX_REQUEST_SIZE (src/README.md, line 88)
BUFFER_SIZE == 1024

MAX_REQUEST_SIZE == 65536

\* the length a request with a body longer than MAX_REQUEST_SIZE declares
OversizedLength == 70000

Req_OversizedHeaders ==
    <<"P", "O", "S", "T", SP, "/", "e", "c", "h", "o", SP, "H", "T", "T",
      "P", "/", "1", ".", "1", CR, LF, "C", "o", "n", "t", "e", "n", "t",
      "-", "L", "e", "n", "g", "t", "h", ":", SP, "7", "0", "0", "0", "0",
      CR, LF, CR, LF>>

\* a POST whose body has the OversizedLength bytes it declares
Req_Oversized == Req_OversizedHeaders \o [i \in 1..OversizedLength |-> "x"]

\* requests whose first line has fewer than two spaces
Req_NoSpace ==
    <<"G", "E", "T", "/", "s", "t", "a", "t", "u", "s", CR, LF, "H", "o",
      "s", "t", ":", "x", CR, LF, CR, LF>>

Req_OneSpace ==
    <<"G", "E", "T", SP, "/", "s", "t", "a", "t", "u", "s", CR, LF, CR, LF>>

Req_BareGetStatus ==
    <<"G", "E", "T", SP, "/", "s", "t", "a", "t", "u", "s">>

\* all of them, in a table; a client is given the number of its request
RequestTable ==
    <<Req_GetStatus, Req_PostHello, Req_PostLowerCase, Req_PostShort,
      Req_PostLong, Req_PostNoLength, Req_PostBadLength,
      Req_PostNegativeLength, Req_ChunkedHello, Req_ChunkedEmpty,
      Req_ChunkedPayloadTerminator, Req_Pipelined, Req_HeadersUnfinished,
      Req_PostZeroLength, Req_PostHugeLength,
      Req_ChunkedSixteen, Req_Oversized, Req_GetSlow, Req_PostStatus,
      Req_GetStatusCapital, Req_GetStatusSlash, Req_NoSpace, Req_OneSpace,
      Req_BareGetStatus>>

RequestId(r) == CHOOSE i \in 1..Len(RequestTable) : RequestTable[i] = r

\* the requests whose framing is examined under every split
FramingRequests ==
    {Req_GetStatus, Req_PostHello, Req_PostLowerCase, Req_PostShort,
     Req_PostLong, Req_PostNoLength, Req_PostBadLength,
     Req_PostNegativeLength, Req_ChunkedHello, Req_ChunkedEmpty,
     Req_ChunkedPayloadTerminator, Req_Pipelined, Req_HeadersUnfinished,
     Req_PostZeroLength, Req_PostHugeLength,
     Req_ChunkedSixteen}

\* the request of each client of the running server (a client sends its
\* request, a part of it or nothing at all)
ServerRequests ==
    [c \in Clients |-> IF c % 2 = 1 THEN {Req_Pipelined} ELSE {Req_PostHello}]

(***************************************************************************)
(* The clients and the network.                                            *)
(***************************************************************************)
\* the bytes client c is going to send (none if it was given no request)
RequestOf(c) == IF req[c] = 0 THEN <<>> ELSE RequestTable[req[c]]

\* the descriptor socket() returns in create_socket (line 220): the
\* connections have the numbers from 1 on
ListenFd == 0

\* the value of server_fd when there is no listening socket (line 224 of
\* src/http-server.h)
NoFd == -1

\* no call of get_header_value is under observation
NoLookup ==
    /\ lookup_headers = <<>>
    /\ lookup_name = <<>>
    /\ lookup_done = TRUE
    /\ view_value = <<>>
    /\ string_value = <<>>

\* no call of read_full_request is under observation
NoRead ==
    /\ rf_req = 0
    /\ rf_len = 0
    /\ rf_closes = TRUE
    /\ rf_taken = 0
    /\ request_buffer = <<>>
    /\ remaining_to_read = 0
    /\ header_search = [old_size |-> 0, incremental |-> NPOS, whole |-> NPOS]
    /\ rf_pc = "returned"

\* start() has set up the listening socket and set running (lines 473-480);
\* no client has connected; main_loop starts with an empty table (line 305)
\* (client c is given one of the requests choices[c], or none if there is
\* none; the routes are one of the given tables)
ServerInit(choices, variants, tables) ==
    /\ req \in [Clients -> 0..Len(RequestTable)]
    /\ \A c \in Clients :
          IF choices[c] = {}
            THEN req[c] = 0
            ELSE \E r \in choices[c] : req[c] = RequestId(r)
    /\ variant \in variants
    /\ cstate = [c \in Clients |-> "idle"]
    /\ sent = [c \in Clients |-> 0]
    /\ segs = [c \in Clients |-> 0]
    /\ rcvbuf = [c \in Clients |-> <<>>]
    /\ peer = [c \in Clients |-> "open"]
    /\ pendingAccept = <<>>
    /\ client_connections = [fd \in {} |-> ActiveConnData]
    /\ epoll_interest = [fd \in {} |-> TRUE]
    /\ open_fds = {}
    /\ nonblocking = {}
    /\ loop_state = "running"
    /\ dispatched = [c \in Clients |-> <<>>]
    /\ delivered = [c \in Clients |-> <<>>]
    /\ readEnd = [c \in Clients |-> [cause |-> "none", complete |-> FALSE]]
    /\ routes \in tables
    /\ running = TRUE
    /\ server_fd = ListenFd
    /\ listen_open = TRUE
    /\ listen_closes = 0
    /\ stop_pc = [t \in StopCalls |-> "idle"]
    /\ stop_fd = [t \in StopCalls |-> NoFd]
    /\ loop_pc = "head"

\* the connection of c is established and waits in the listen backlog.
\* Connections are numbered in the order in which they are made.
Connect(c) ==
    /\ listen_open
    /\ cstate[c] = "idle"
    /\ \A d \in Clients : d < c => cstate[d] # "idle"
    /\ cstate' = [cstate EXCEPT ![c] = "connected"]
    /\ pendingAccept' = Append(pendingAccept, c)
    /\ UNCHANGED <<routes, req, variant, sent, segs, rcvbuf, peer, client_connections,
                   epoll_interest, open_fds, nonblocking, loop_state, dispatched, delivered,
                   readEnd>>
    /\ UNCHANGED <<stopVars, loop_pc>>
    /\ UNCHANGED lookupVars
    /\ UNCHANGED readVars
    /\ UNCHANGED poolVars

\* the server's end of the connection of c exists and is not closed
ServerEndOpen(c) == c \in Range(pendingAccept) \/ c \in open_fds

\* the client writes the next k bytes of its request
ClientSend(c, k) ==
    /\ cstate[c] = "connected"
    /\ peer[c] = "open"
    /\ ServerEndOpen(c)
    /\ k >= 1
    /\ sent[c] + k <= Len(RequestOf(c))
    /\ segs[c] < MaxSegments
    /\ rcvbuf' = [rcvbuf EXCEPT ![c] = @ \o SubSeq(RequestOf(c), sent[c] + 1, sent[c] + k)]
    /\ sent' = [sent EXCEPT ![c] = @ + k]
    /\ segs' = [segs EXCEPT ![c] = @ + 1]
    /\ UNCHANGED <<routes, req, variant, cstate, peer, pendingAccept, client_connections,
                   epoll_interest, open_fds, nonblocking, loop_state, dispatched, delivered,
                   readEnd>>
    /\ UNCHANGED <<stopVars, loop_pc>>
    /\ UNCHANGED lookupVars
    /\ UNCHANGED readVars
    /\ UNCHANGED poolVars

\* the client closes its end: after the bytes received so far, reads return 0
ClientClose(c) ==
    /\ cstate[c] = "connected"
    /\ peer[c] = "open"
    /\ ServerEndOpen(c)
    /\ peer' = [peer EXCEPT ![c] = "fin"]
    /\ UNCHANGED <<routes, req, variant, cstate, sent, segs, rcvbuf, pendingAccept,
                   client_connections, epoll_interest, open_fds, nonblocking, loop_state,
                   dispatched, delivered,
                   readEnd>>
    /\ UNCHANGED <<stopVars, loop_pc>>
    /\ UNCHANGED lookupVars
    /\ UNCHANGED readVars
    /\ UNCHANGED poolVars

\* the connection is reset: the unread bytes are gone and reads fail
ClientReset(c) ==
    /\ cstate[c] = "connected"
    /\ peer[c] = "open"
    /\ ServerEndOpen(c)
    /\ peer' = [peer EXCEPT ![c] = "rst"]
    /\ rcvbuf' = [rcvbuf EXCEPT ![c] = <<>>]
    /\ UNCHANGED <<routes, req, variant, cstate, sent, segs, pendingAccept,
                   client_connections, epoll_interest, open_fds, nonblocking, loop_state,
                   dispatched, delivered,
                   readEnd>>
    /\ UNCHANGED <<stopVars, loop_pc>>
    /\ UNCHANGED lookupVars
    /\ UNCHANGED readVars
    /\ UNCHANGED poolVars

(***************************************************************************)
(* HttpServer::main_loop of the reactor (src/README.md, lines 304-465).    *)
(* A client event is one step: the reads until the socket has nothing more *)
(* to give, then the framing and the dispatch, run without interruption    *)
(* on the only thread of the server.                                       *)
(***************************************************************************)
\* table[fd] = v
MapPut(table, fd, v) ==
    [x \in DOMAIN table \cup {fd} |-> IF x = fd THEN v ELSE table[x]]

\* table.erase(fd)
MapErase(table, fd) == [x \in DOMAIN table \ {fd} |-> table[x]]

\* line 342: client_connections[client_fd]; operator[] makes the entry if
\* there is none
MapAt(table, fd) == IF fd \in DOMAIN table THEN table[fd] ELSE ActiveConnData

\* the descriptor has something to report: bytes to read, the end of the
\* stream or an error
Readable(fd) == rcvbuf[fd] # <<>> \/ peer[fd] # "open"

\* how the reads of one event end when the peer is not simply silent:
\* recv returns 0, or -1 with an errno other than EAGAIN
ReadResult(p) == IF p = "fin" THEN "eof" ELSE "error"

\* a reactor that goes on after a read of 0 bytes or an error
CloseConn_Never(p) == FALSE

\* lines 355-369: close_conn, once the reads of the event have ended
CloseConn(p) == p # "open"

\* a reactor that accepts one connection for each event of the listening
\* socket
R_Accept_One ==
    /\ variant = "reactor"
    /\ loop_state = "running"
    /\ listen_open
    /\ pendingAccept # <<>>
    /\ LET new == {Head(pendingAccept)}
       IN  /\ open_fds' = open_fds \cup new
           /\ nonblocking' = nonblocking \cup new
           /\ epoll_interest' =
                [x \in DOMAIN epoll_interest \cup new |->
                    IF x \in new THEN TRUE ELSE epoll_interest[x]]
           /\ client_connections' =
                [x \in DOMAIN client_connections \cup new |->
                    IF x \in new THEN ActiveConnData ELSE client_connections[x]]
    /\ pendingAccept' = Tail(pendingAccept)
    /\ UNCHANGED <<routes, req, variant, cstate, sent, segs, rcvbuf, peer, loop_state,
                   dispatched, delivered,
                   readEnd>>
    /\ UNCHANGED <<stopVars, loop_pc>>
    /\ UNCHANGED lookupVars
    /\ UNCHANGED readVars
    /\ UNCHANGED poolVars

\* lines 312-337: accept until EAGAIN; every new descriptor is made
\* non-blocking, registered with EPOLLIN | EPOLLET | EPOLLONESHOT and gets a
\* fresh ActiveConnData
R_Accept ==
    /\ variant = "reactor"
    /\ loop_state = "running"
    /\ listen_open
    /\ pendingAccept # <<>>
    /\ LET new == Range(pendingAccept)
       IN  /\ open_fds' = open_fds \cup new
           /\ nonblocking' = nonblocking \cup new
           /\ epoll_interest' =
                [x \in DOMAIN epoll_interest \cup new |->
                    IF x \in new THEN TRUE ELSE epoll_interest[x]]
           /\ client_connections' =
                [x \in DOMAIN client_connections \cup new |->
                    IF x \in new THEN ActiveConnData ELSE client_connections[x]]
    /\ pendingAccept' = <<>>
    /\ UNCHANGED <<routes, req, variant, cstate, sent, segs, rcvbuf, peer, loop_state,
                   dispatched, delivered,
                   readEnd>>
    /\ UNCHANGED <<stopVars, loop_pc>>
    /\ UNCHANGED lookupVars
    /\ UNCHANGED readVars
    /\ UNCHANGED poolVars

\* what is noted of a call of get_response: the request it was given, how
\* many of its bytes the reads of that event brought, the framing at that
\* moment, the handler that ran, the response, and the connections on which
\* a read had returned 0 or failed before
DispatchRecord(request, d, bytes) ==
    [request |-> request,
     read |-> Len(bytes),
     req_type |-> d.req_type,
     header_end_pos |-> d.header_end_pos,
     content_length |-> d.content_length,
     handler |-> get_response(request).handler,
     thrown |-> get_response(request).thrown,
     response |-> get_response(request).response,
     after |-> {c \in Clients : readEnd[c].cause # "none"}]

\* a close_conn path that forgets to erase the state
TearDown_KeepEntry(fd) ==
    /\ open_fds' = open_fds \ {fd}
    /\ nonblocking' = nonblocking \ {fd}
    /\ epoll_interest' = MapErase(epoll_interest, fd)
    /\ UNCHANGED <<client_connections, loop_state, dispatched, delivered>>

\* lines 373-378: close the socket, take it out of epoll, erase the state
TearDown(fd) ==
    /\ open_fds' = open_fds \ {fd}
    /\ nonblocking' = nonblocking \ {fd}
    /\ epoll_interest' = MapErase(epoll_interest, fd)
    /\ client_connections' = MapErase(client_connections, fd)
    /\ UNCHANGED <<loop_state, dispatched, delivered>>

\* when the send buffer of a socket is short of room, the bytes it takes
ShortWrite == 8

\* line 445, write(client_fd, response.c_str(), response.size()) on a socket
\* that set_non_blocking made non-blocking: the numbers of bytes it may take,
\* all n or, if the send buffer has no room for them, ShortWrite
WriteAccepts(n) == {n} \cup {k \in {ShortWrite} : k < n}

\* line 346 of src/http-server.cc, send on a blocking socket: it returns
\* when all n bytes are taken
SendAccepts(n) == {n}

\* the one write: the first k bytes of the response are on the socket
WriteResponse(fd, response, k) ==
    delivered' = [delivered EXCEPT ![fd] = @ \o Substr(response, 0, k)]

\* a reactor that answers and then waits for more on the same connection
CompleteRequestHandling_KeepOpen(fd, d, bytes) ==
    /\ dispatched' = [dispatched EXCEPT ![fd] = Append(@, DispatchRecord(d.msg, d, bytes))]
    /\ \E k \in WriteAccepts(Len(get_response(d.msg).response)) :
          WriteResponse(fd, get_response(d.msg).response, k)
    /\ client_connections' = MapPut(client_connections, fd, d)
    /\ epoll_interest' = MapPut(epoll_interest, fd, TRUE)
    /\ UNCHANGED <<open_fds, nonblocking, loop_state>>

\* lines 443-454: get_response, write, then the cleanup.  If the handler
\* throws, the exception passes through get_response and main_loop, which
\* catch nothing: the loop is left before the write and the cleanup.
CompleteRequestHandling(fd, d, bytes) ==
    /\ dispatched' = [dispatched EXCEPT ![fd] = Append(@, DispatchRecord(d.msg, d, bytes))]
    /\ IF get_response(d.msg).thrown
         THEN /\ client_connections' = MapPut(client_connections, fd, d)
              /\ epoll_interest' = MapPut(epoll_interest, fd, FALSE)
              /\ loop_state' = "terminated"
              /\ UNCHANGED <<open_fds, nonblocking, delivered>>
         ELSE /\ \E k \in WriteAccepts(Len(get_response(d.msg).response)) :
                    WriteResponse(fd, get_response(d.msg).response, k)
              /\ epoll_interest' = MapErase(epoll_interest, fd)
              /\ open_fds' = open_fds \ {fd}
              /\ nonblocking' = nonblocking \ {fd}
              /\ client_connections' = MapErase(client_connections, fd)
              /\ UNCHANGED loop_state

\* a reactor that keeps the state and leaves the one-shot descriptor disabled
Rearm_Disarmed(fd, d) ==
    /\ client_connections' = MapPut(client_connections, fd, d)
    /\ epoll_interest' = MapPut(epoll_interest, fd, FALSE)
    /\ UNCHANGED <<open_fds, nonblocking, loop_state, dispatched, delivered>>

\* lines 416-423 and 455-461: keep the state, arm the descriptor again
Rearm(fd, d) ==
    /\ client_connections' = MapPut(client_connections, fd, d)
    /\ epoll_interest' = MapPut(epoll_interest, fd, TRUE)
    /\ UNCHANGED <<open_fds, nonblocking, loop_state, dispatched, delivered>>

\* line 399: std::stoul throws and nothing in main_loop catches it: the
\* loop is left for good, the one-shot registration stays disabled
Uncaught(fd, d) ==
    /\ client_connections' = MapPut(client_connections, fd, d)
    /\ epoll_interest' = MapPut(epoll_interest, fd, FALSE)
    /\ loop_state' = "terminated"
    /\ UNCHANGED <<open_fds, nonblocking, dispatched, delivered>>

\* lines 339-462: an event of a client descriptor
R_ClientEvent(fd) ==
    /\ variant = "reactor"
    /\ loop_state = "running"
    /\ fd \in DOMAIN epoll_interest
    /\ epoll_interest[fd]
    /\ Readable(fd)
    /\ LET r == ProcessData(MapAt(client_connections, fd), rcvbuf[fd])
       IN  /\ readEnd' =
                IF peer[fd] # "open"
                  THEN [readEnd EXCEPT ![fd] = [cause |-> ReadResult(peer[fd]),
                                                complete |-> r.outcome = "complete"]]
                  ELSE readEnd
           /\ IF CloseConn(peer[fd]) THEN TearDown(fd)
              ELSE IF r.outcome = "complete" THEN CompleteRequestHandling(fd, r.data, rcvbuf[fd])
              ELSE IF r.outcome = "rearm" THEN Rearm(fd, r.data)
              ELSE Uncaught(fd, r.data)
    /\ rcvbuf' = [rcvbuf EXCEPT ![fd] = <<>>]
    /\ UNCHANGED <<routes, req, variant, cstate, sent, segs, peer, pendingAccept>>
    /\ UNCHANGED <<stopVars, loop_pc>>
    /\ UNCHANGED lookupVars
    /\ UNCHANGED readVars
    /\ UNCHANGED poolVars

(***************************************************************************)
(* HttpServer::main_loop of the blocking server (src/http-server.cc,       *)
(* lines 330-353): accept, one recv of up to BUFFER_SIZE bytes,            *)
(* get_response if it brought bytes, send, close.  An exception that a     *)
(* handler throws leaves the loop before the send and the close.           *)
(***************************************************************************)
\* lines 331-336: while (running), then the call of accept.  The loop ends
\* when running is false; accept fails at once on a descriptor that is -1
\* or closed, and the loop goes back to its head; otherwise the thread is
\* inside accept until a connection is there
B_Head ==
    /\ variant = "blocking"
    /\ loop_state = "running"
    /\ loop_pc = "head"
    /\ IF ~running
         THEN loop_state' = "exited" /\ UNCHANGED loop_pc
         ELSE /\ server_fd # NoFd /\ listen_open
              /\ loop_pc' = "in_accept"
              /\ UNCHANGED loop_state
    /\ UNCHANGED <<routes, req, variant, cstate, sent, segs, rcvbuf, peer,
                   pendingAccept, client_connections, epoll_interest, open_fds, nonblocking,
                   dispatched, delivered, readEnd>>
    /\ UNCHANGED stopVars
    /\ UNCHANGED lookupVars
    /\ UNCHANGED readVars
    /\ UNCHANGED poolVars

\* lines 333-352: accept has returned a connection; the rest of the
\* iteration
B_Serve ==
    /\ variant = "blocking"
    /\ loop_state = "running"
    /\ loop_pc = "in_accept"
    /\ pendingAccept # <<>>
    /\ LET c == Head(pendingAccept)
           bytes == Substr(rcvbuf[c], 0, BUFFER_SIZE)
       IN  /\ Readable(c)
           /\ IF Len(bytes) > 0
                THEN /\ dispatched' = [dispatched EXCEPT ![c] =
                            Append(@, DispatchRecord(bytes, ActiveConnData, bytes))]
                     /\ IF get_response(bytes).thrown
                          THEN /\ loop_state' = "terminated"
                               /\ open_fds' = open_fds \cup {c}
                               /\ UNCHANGED nonblocking
                               /\ UNCHANGED delivered
                          ELSE /\ \E k \in SendAccepts(Len(get_response(bytes).response)) :
                                     WriteResponse(c, get_response(bytes).response, k)
                               /\ UNCHANGED <<loop_state, open_fds, nonblocking>>
                     /\ UNCHANGED readEnd
                ELSE /\ readEnd' = [readEnd EXCEPT ![c] =
                            [cause |-> ReadResult(peer[c]), complete |-> FALSE]]
                     /\ UNCHANGED <<dispatched, delivered, loop_state, open_fds, nonblocking>>
           /\ rcvbuf' = [rcvbuf EXCEPT ![c] = <<>>]
    /\ pendingAccept' = Tail(pendingAccept)
    /\ UNCHANGED <<routes, req, variant, cstate, sent, segs, peer, client_connections,
                   epoll_interest>>
    /\ loop_pc' = "head"
    /\ UNCHANGED stopVars
    /\ UNCHANGED lookupVars
    /\ UNCHANGED readVars
    /\ UNCHANGED poolVars

(***************************************************************************)
(* HttpServer::stop (src/README.md, lines 485-491; src/http-server.cc,     *)
(* lines 371-377), called from threads other than the one in main_loop.    *)
(* running and server_fd are plain members, read and written without any   *)
(* lock, so every statement is a step of its own; the descriptor given to  *)
(* close is the value read by the test or the value read again, as the     *)
(* compiler is free to do either.                                          *)
(***************************************************************************)
\* line 487: if (server_fd != -1)
StopTestPasses(fd) == fd # NoFd

\* line 486: running = false
St_ClearRunning(t) ==
    /\ stop_pc[t] = "idle"
    /\ running' = FALSE
    /\ stop_pc' = [stop_pc EXCEPT ![t] = "test"]
    /\ UNCHANGED <<server_fd, listen_open, listen_closes, stop_fd>>

\* line 487
St_Test(t) ==
    /\ stop_pc[t] = "test"
    /\ stop_fd' = [stop_fd EXCEPT ![t] = server_fd]
    /\ stop_pc' = [stop_pc EXCEPT ![t] =
                      IF StopTestPasses(server_fd) THEN "close" ELSE "returned"]
    /\ UNCHANGED <<running, server_fd, listen_open, listen_closes>>

\* line 488: close(server_fd); close(-1) fails and does nothing
St_Close(t) ==
    /\ stop_pc[t] = "close"
    /\ \E fd \in {stop_fd[t], server_fd} :
          IF fd = ListenFd
            THEN /\ listen_closes' = listen_closes + 1
                 /\ listen_open' = FALSE
            ELSE UNCHANGED <<listen_closes, listen_open>>
    /\ stop_pc' = [stop_pc EXCEPT ![t] = "assign"]
    /\ UNCHANGED <<running, server_fd, stop_fd>>

\* line 489: server_fd = -1
St_Assign(t) ==
    /\ stop_pc[t] = "assign"
    /\ server_fd' = NoFd
    /\ stop_pc' = [stop_pc EXCEPT ![t] = "returned"]
    /\ UNCHANGED <<running, listen_open, listen_closes, stop_fd>>

\* a step of call t of stop
StopStep(t) ==
    /\ St_ClearRunning(t) \/ St_Test(t) \/ St_Close(t) \/ St_Assign(t)
    /\ UNCHANGED <<loop_pc, routes, variant, req, cstate, sent, segs, rcvbuf,
                   peer, pendingAccept, client_connections, epoll_interest,
                   open_fds, nonblocking, loop_state, dispatched, delivered, readEnd>>
    /\ UNCHANGED lookupVars
    /\ UNCHANGED readVars
    /\ UNCHANGED poolVars

(***************************************************************************)
(* The thread pool with enqueue and shutdown callers.                      *)
(***************************************************************************)
PoolNext ==
    \/ \E w \in Workers : WorkerStep(w)
    \/ \E w \in Workers : W_SpuriousWake(w)
    \/ \E t \in Tasks : E_Call(t)
    \/ \E t \in Tasks : EnqueueStep(t)
    \/ \E c \in ShutdownCalls : S_Cas(c)
    \/ \E c \in ShutdownCalls : ShutdownStep(c)

\* a pool on which shutdown is never called
PoolNextNoShutdown ==
    \/ \E w \in Workers : WorkerStep(w)
    \/ \E w \in Workers : W_SpuriousWake(w)
    \/ \E t \in Tasks : E_Call(t)
    \/ \E t \in Tasks : EnqueueStep(t)

\* fair scheduling: a thread that can take a step again and again takes one
\* (the start of a call and a spurious wake-up are not owed to anyone)
PoolFairness ==
    /\ \A w \in Workers : SF_vars(WorkerStep(w))
    /\ \A t \in Tasks : SF_vars(EnqueueStep(t))
    /\ \A c \in ShutdownCalls : SF_vars(ShutdownStep(c))

\* while the pool is examined no client connects to a server
Init == PoolInit /\ NoLookup /\ NoRead /\ ServerInit([c \in Clients |-> {}], {"reactor"}, {MainRoutes})

Next == PoolNext

\* every interleaving of workers, enqueue calls and shutdown calls
Spec == Init /\ [][Next]_vars

\* the same under fair scheduling
FairSpec == Init /\ [][Next]_vars /\ PoolFairness

\* a pool on which shutdown is never called: here it is enough that a thread
\* that can take a step from some point on eventually takes one
NoShutdownFairness ==
    /\ \A w \in Workers : WF_vars(WorkerStep(w))
    /\ \A t \in Tasks : WF_vars(EnqueueStep(t))

NoShutdownSpec == Init /\ [][PoolNextNoShutdown]_vars /\ NoShutdownFairness

(***************************************************************************)
(* The server with its clients.                                            *)
(***************************************************************************)
\* every write of a client of the running server carries either the rest of
\* its request or all of the rest but the last LastSegment bytes
ServerSendSizes(c) ==
    {Len(RequestOf(c)) - sent[c], Len(RequestOf(c)) - sent[c] - LastSegment}

ServerNext ==
    \/ \E c \in Clients : Connect(c)
    \/ \E c \in Clients : \E k \in ServerSendSizes(c) : ClientSend(c, k)
    \/ \E c \in Clients : ClientClose(c)
    \/ \E c \in Clients : ClientReset(c)
    \/ R_Accept
    \/ \E fd \in Clients : R_ClientEvent(fd)
    \/ B_Head
    \/ B_Serve

\* the reactor or the blocking server, with clients that send, close and
\* are reset in every order
ServerSpecInit ==
    PoolInit /\ NoLookup /\ NoRead /\ ServerInit(ServerRequests, {"reactor", "blocking"}, {MainRoutes})

ServerSpec == ServerSpecInit /\ [][ServerNext]_vars

\* a route table whose first handler throws
ThrowingRoutes ==
    <<[method |-> Str_GET, path |-> Str_status, handler |-> "handler_that_throws"],
      [method |-> Str_GET, path |-> Str_slow, handler |-> "handle_slow_task"]>>

\* the server of ServerSpec with that table
HandlerSpecInit ==
    PoolInit /\ NoLookup /\ NoRead /\ ServerInit(ServerRequests, {"reactor", "blocking"},
                                        {ThrowingRoutes})

HandlerSpec == HandlerSpecInit /\ [][ServerNext]_vars

\* one connection to the reactor; its request arrives in up to MaxSegments
\* segments, cut anywhere
FramingClients == {1}

FramingNext ==
    \/ \E c \in FramingClients : Connect(c)
    \/ \E c \in FramingClients : \E k \in 1..Len(RequestOf(c)) : ClientSend(c, k)
    \/ R_Accept
    \/ \E fd \in FramingClients : R_ClientEvent(fd)

FramingInit ==
    PoolInit /\ NoLookup /\ NoRead /\ ServerInit([c \in Clients |-> IF c \in FramingClients
                                                             THEN FramingRequests ELSE {}],
                                        {"reactor"}, {MainRoutes})

FramingSpec == FramingInit /\ [][FramingNext]_vars

\* the routes a table may hold when every table is examined: every handler
\* of main() under the methods GET and POST and the paths of main()
RouteChoices ==
    [method : {Str_GET, Str_POST}, path : {Str_status, Str_slow},
     handler : {"handle_fast_check", "handle_slow_task"}]

\* the tables n calls of add_endpoint make
RECURSIVE TablesOfLength(_)
TablesOfLength(n) ==
    IF n = 0 THEN {<<>>}
    ELSE {add_endpoint(t, r.method, r.path, r.handler) :
            t \in TablesOfLength(n - 1), r \in RouteChoices}

RouteTables == UNION {TablesOfLength(n) : n \in 0..MaxRoutes}

\* the requests sent to a server with any of these tables
RoutingRequests ==
    {Req_GetStatus, Req_GetSlow, Req_PostStatus, Req_GetStatusCapital,
     Req_GetStatusSlash}

\* one connection to the reactor or to the blocking server, whose routes are
\* any table; the request arrives in one piece
RoutingNext ==
    \/ \E c \in FramingClients : Connect(c)
    \/ \E c \in FramingClients : \E k \in {Len(RequestOf(c))} : ClientSend(c, k)
    \/ R_Accept
    \/ \E fd \in FramingClients : R_ClientEvent(fd)
    \/ B_Head
    \/ B_Serve

RoutingInit ==
    PoolInit /\ NoLookup /\ NoRead /\ ServerInit([c \in Clients |-> IF c \in FramingClients
                                                             THEN RoutingRequests ELSE {}],
                                        {"reactor", "blocking"}, RouteTables)

RoutingSpec == RoutingInit /\ [][RoutingNext]_vars

\* one connection to the reactor or to the blocking server that carries the
\* request with the long body; a write of the client brings one BUFFER_SIZE, MAX_REQUEST_SIZE
\* bytes, or all the rest, and the client may close or be reset
OversizeSendSizes(c) ==
    {BUFFER_SIZE, MAX_REQUEST_SIZE, Len(RequestOf(c)) - sent[c]}

OversizeNext ==
    \/ \E c \in FramingClients : Connect(c)
    \/ \E c \in FramingClients : \E k \in OversizeSendSizes(c) : ClientSend(c, k)
    \/ \E c \in FramingClients : ClientClose(c)
    \/ \E c \in FramingClients : ClientReset(c)
    \/ R_Accept
    \/ \E fd \in FramingClients : R_ClientEvent(fd)
    \/ B_Head
    \/ B_Serve

OversizeInit ==
    PoolInit /\ NoLookup /\ NoRead /\ ServerInit([c \in Clients |-> IF c \in FramingClients
                                                             THEN {Req_Oversized} ELSE {}],
                                        {"reactor", "blocking"}, {MainRoutes})

OversizeSpec == OversizeInit /\ [][OversizeNext]_vars

(***************************************************************************)
(* The server while stop is called.                                        *)
(***************************************************************************)
StopRequests == {Req_GetStatus, Req_PostHello}

\* the step of the thread that runs main_loop
LoopStep ==
    \/ R_Accept
    \/ \E fd \in FramingClients : R_ClientEvent(fd)
    \/ B_Head
    \/ B_Serve

\* one client, the main loop, and NumStopCalls calls of stop made from
\* other threads at any time
StopNext ==
    \/ \E c \in FramingClients : Connect(c)
    \/ \E c \in FramingClients : \E k \in ServerSendSizes(c) : ClientSend(c, k)
    \/ \E c \in FramingClients : ClientClose(c)
    \/ LoopStep
    \/ \E t \in StopCalls : StopStep(t)

StopInit ==
    PoolInit /\ NoLookup /\ NoRead /\ ServerInit([c \in Clients |-> IF c \in FramingClients
                                                             THEN StopRequests ELSE {}],
                                        {"reactor", "blocking"}, {MainRoutes})

StopSpec == StopInit /\ [][StopNext]_vars

(***************************************************************************)
(* The two versions of get_header_value, called with the same arguments.   *)
(***************************************************************************)
Line_Host ==
    <<"H", "o", "s", "t", ":", SP, "a", CR, LF>>

Line_ContentLength ==
    <<"C", "o", "n", "t", "e", "n", "t", "-", "L", "e", "n", "g", "t", "h",
      ":", SP, "5", CR, LF>>

Line_LowerTab ==
    <<"c", "o", "n", "t", "e", "n", "t", "-", "l", "e", "n", "g", "t", "h",
      ":", HT, SP, "7", CR, LF>>

Line_Prefixed ==
    <<"x", "-", "c", "o", "n", "t", "e", "n", "t", "-", "l", "e", "n", "g",
      "t", "h", ":", SP, "9", CR, LF>>

Line_InValue ==
    <<"A", "c", "c", "e", "p", "t", ":", SP, "c", "o", "n", "t", "e", "n",
      "t", "-", "l", "e", "n", "g", "t", "h", CR, LF>>

Line_NoBlank ==
    <<"H", "O", "S", "T", ":", "b", CR, LF>>

Line_OnlyBlanks ==
    <<"H", "o", "s", "t", ":", SP, HT, CR, LF>>

Str_host ==
    <<"h", "o", "s", "t">>

Str_Host ==
    <<"H", "o", "s", "t">>

Str_contentlength ==
    <<"c", "o", "n", "t", "e", "n", "t", "-", "l", "e", "n", "g", "t", "h">>

Str_CONTENTLENGTH ==
    <<"C", "O", "N", "T", "E", "N", "T", "-", "L", "E", "N", "G", "T", "H">>

Str_Accept ==
    <<"A", "c", "c", "e", "p", "t">>

HeaderLines ==
    {Line_Host, Line_ContentLength, Line_LowerTab, Line_Prefixed, Line_InValue,
     Line_NoBlank, Line_OnlyBlanks}

\* the header blocks of up to MaxHeaderLines of these lines
RECURSIVE BlocksOfLength(_)
BlocksOfLength(n) ==
    IF n = 0 THEN {<<>>}
    ELSE {b \o l : b \in BlocksOfLength(n - 1), l \in HeaderLines}

HeaderBlocks == UNION {BlocksOfLength(n) : n \in 0..MaxHeaderLines}

HeaderNames ==
    {Str_host, Str_Host, Str_ContentLength, Str_contentlength,
     Str_CONTENTLENGTH, Str_Accept}

\* both versions are called with the arguments
LookupHeader ==
    /\ ~lookup_done
    /\ view_value' = get_header_value(lookup_headers, lookup_name)
    /\ string_value' = get_header_value_string(lookup_headers, lookup_name)
    /\ lookup_done' = TRUE
    /\ UNCHANGED <<lookup_headers, lookup_name>>
    /\ UNCHANGED readVars
    /\ UNCHANGED <<stopVars, loop_pc, routes, variant, req, cstate, sent, segs,
                   rcvbuf, peer, pendingAccept, client_connections,
                   epoll_interest, open_fds, nonblocking, loop_state, dispatched, delivered,
                   readEnd>>
    /\ UNCHANGED poolVars

LookupNext == LookupHeader

LookupInit ==
    /\ PoolInit
    /\ NoRead
    /\ ServerInit([c \in Clients |-> {}], {"reactor"}, {MainRoutes})
    /\ lookup_headers \in HeaderBlocks
    /\ lookup_name \in HeaderNames
    /\ lookup_done = FALSE
    /\ view_value = <<>>
    /\ string_value = <<>>

LookupSpec == LookupInit /\ [][LookupNext]_vars

(***************************************************************************)
(* The server and requests with a malformed first line.                    *)
(***************************************************************************)
RequestLineRequests ==
    {Req_GetStatus, Req_NoSpace, Req_OneSpace, Req_BareGetStatus}

\* one connection to the reactor or to the blocking server; the request
\* arrives in up to MaxSegments segments, and the client may close
RequestLineNext ==
    \/ \E c \in FramingClients : Connect(c)
    \/ \E c \in FramingClients : \E k \in 1..Len(RequestOf(c)) : ClientSend(c, k)
    \/ \E c \in FramingClients : ClientClose(c)
    \/ R_Accept
    \/ \E fd \in FramingClients : R_ClientEvent(fd)
    \/ B_Head
    \/ B_Serve

RequestLineInit ==
    PoolInit /\ NoLookup /\ NoRead /\ ServerInit([c \in Clients |-> IF c \in FramingClients
                                                             THEN RequestLineRequests ELSE {}],
                                        {"reactor", "blocking"}, {MainRoutes})

RequestLineSpec == RequestLineInit /\ [][RequestLineNext]_vars

(***************************************************************************)
(* Helpers of the properties.                                              *)
(***************************************************************************)
NoDuplicates(q) == \A i, j \in 1..Len(q) : i # j => q[i] # q[j]

IndexOf(q, x) == CHOOSE i \in 1..Len(q) : q[i] = x

Accepted(t) == epc[t] \in {"notify", "returned"}

(***************************************************************************)
(* Properties of the thread pool.                                          *)
(***************************************************************************)

\* C1: on a pool on which shutdown is never called, no task is taken out of
\* the queue twice or run more than once, and every task whose enqueue call
\* succeeded is eventually run (exactly once).
C1_EveryTaskRunsExactlyOnce ==
    /\ [](NoDuplicates(popOrder) /\ \A t \in Tasks : execCount[t] <= 1)
    /\ \A t \in Tasks : (Accepted(t) ~> (execCount[t] = 1))

C1_Witness ==
    /\ ~stop_flag
    /\ \A t \in Tasks : epc[t] = "returned" /\ execCount[t] = 1

\* C2: when the shutdown call that set stop_flag has returned, every task
\* that was in the queue when the flag was set has been run.
C2_QueuedTasksRunBeforeShutdownReturns ==
    \A c \in winners :
        spc[c] = "returned" => \A t \in Range(atStop) : execCount[t] >= 1

\* C3: the shutdown call that wins the compare-exchange eventually returns,
\* and then no task is running and every worker thread has ended.
C3_WinningShutdownReturns ==
    \A c \in ShutdownCalls :
        (c \in winners) ~>
            (/\ spc[c] = "returned"
             /\ \A w \in Workers : wpc[w] = "done")

\* C4: the pool never stops (all workers ended) with an accepted task still
\* in the queue.
C4_NoAcceptedTaskLeftBehind ==
    (\A w \in Workers : wpc[w] = "done") => tasks = <<>>

\* C5: an enqueue call that begins once stop_flag is set fails and never
\* puts its task into the queue.
C5_EnqueueAfterStopFails ==
    \A t \in Tasks :
        callSawStop[t] =>
            /\ epc[t] \in {"lock", "failed"}
            /\ t \notin Range(pushOrder)
            /\ t \notin Range(tasks)

C5_Witness ==
    \E t \in Tasks : callSawStop[t] /\ epc[t] = "failed"

\* C6: of any number of shutdown calls exactly one performs the stop
\* transition, the notification and the joins; no worker is joined twice;
\* every other call returns at once and changes nothing of the pool.
C6_Inv ==
    /\ Cardinality(winners) <= 1
    /\ (\E c \in ShutdownCalls : spc[c] # "idle") => Cardinality(winners) = 1
    /\ \A c \in ShutdownCalls : spc[c] \in {"notify", "join"} => c \in winners
    /\ notifyAllCount <= 1
    /\ \A w \in Workers : joinCount[w] <= 1

C6_LoserStep(c) ==
    /\ spc[c] = "idle"
    /\ spc'[c] # "idle"
    /\ stop_flag

C6_ShutdownIdempotent ==
    /\ []C6_Inv
    /\ [][\A c \in ShutdownCalls :
            C6_LoserStep(c) =>
                /\ spc'[c] = "returned"
                /\ UNCHANGED <<stop_flag, tasks, queue_mutex, condition, workers,
                               joinable, wpc, wtask, joinCount, notifyAllCount>>]_vars

C6_Witness ==
    /\ \E c \in winners : spc[c] = "returned"
    /\ \E c \in ShutdownCalls \ winners : spc[c] = "returned"
    /\ \A w \in Workers : joinCount[w] = 1

\* C7: the queue is first-in first-out.  The tasks taken out so far,
\* followed by the queue, are the tasks in the order they were put in; a task
\* is put in only at the back and leaves only from the front, into the hands
\* of a worker; and when a call begins, the task of every call that has
\* returned is already in that order and its own is not, so it is taken out
\* later.
C7_Begins(t) == epc[t] = "idle" /\ epc'[t] # "idle"

C7_QueueIsFifo ==
    /\ [](pushOrder = popOrder \o tasks /\ NoDuplicates(pushOrder))
    /\ [][\/ pushOrder' = pushOrder
          \/ \E t \in Tasks : /\ pushOrder' = Append(pushOrder, t)
                              /\ tasks' = Append(tasks, t)]_vars
    /\ [][\/ popOrder' = popOrder
          \/ /\ tasks # <<>>
             /\ popOrder' = Append(popOrder, Head(tasks))
             /\ tasks' = Tail(tasks)
             /\ \E w \in Workers : wtask'[w] = Head(tasks) /\ wpc'[w] = "exec"]_vars
    /\ [][\A b \in Tasks :
            C7_Begins(b) =>
                /\ b \notin Range(pushOrder')
                /\ \A a \in Tasks : epc[a] = "returned" => a \in Range(pushOrder)]_vars

C7_Witness ==
    /\ Len(popOrder) >= 2
    /\ \E w \in Workers : wpc[w] = "exec"

(***************************************************************************)
(* Properties of the reactor's framing.                                    *)
(***************************************************************************)
\* the whole request delivered in a single read to a fresh connection
SingleRead(request) == ProcessData(ActiveConnData, request)

\* the body: the bytes of the buffer from header_end on
BodyBytes(msg, header_end) == Substr(msg, header_end, NPOS)

\* every byte of the request of c has been read into its stored state
AllRead(c) ==
    /\ c \in DOMAIN client_connections
    /\ sent[c] = Len(RequestOf(c))
    /\ rcvbuf[c] = <<>>

\* no proper prefix of the request is already a complete request
NoCompletePrefix(request) ==
    \A n \in 0..(Len(request) - 1) :
        SingleRead(SubSeq(request, 1, n)).outcome # "complete"

\* framing mode, header_end and completion decision are those of the single
\* read: at every dispatch, in every stored state whose framing is known,
\* when the loop ends by an exception, and once every byte has been read
SameFramingAsSingleRead(c) ==
    LET single == SingleRead(RequestOf(c))
    IN  /\ \A i \in 1..Len(dispatched[c]) :
              /\ single.outcome = "complete"
              /\ dispatched[c][i].req_type = single.data.req_type
              /\ dispatched[c][i].header_end_pos = single.data.header_end_pos
        /\ (c \in DOMAIN client_connections /\ client_connections[c].req_type # "UNKNOWN")
              => /\ client_connections[c].req_type = single.data.req_type
                 /\ client_connections[c].header_end_pos = single.data.header_end_pos
        /\ loop_state = "terminated" => single.outcome = "throw"
        /\ AllRead(c)
              => /\ single.outcome # "complete"
                 /\ client_connections[c] = single.data
                 /\ (single.outcome = "throw") <=> (loop_state = "terminated")

\* the body bytes buffered at the i-th dispatch of c are those of the single
\* read
SameBodyAsSingleRead(c, i) ==
    BodyBytes(dispatched[c][i].request, dispatched[c][i].header_end_pos)
        = BodyBytes(SingleRead(RequestOf(c)).data.msg,
                    SingleRead(RequestOf(c)).data.header_end_pos)

\* C8 as stated: for every request and every split, the framing mode, the
\* header_end offset, the completion decision and the body bytes buffered at
\* dispatch are those of the single read.
C8_SplitInvarianceEveryRequest ==
    \A c \in FramingClients :
        /\ SameFramingAsSingleRead(c)
        /\ \A i \in 1..Len(dispatched[c]) : SameBodyAsSingleRead(c, i)

\* C8, amended: for every request and every split, the framing mode, the
\* header_end offset and the completion decision are those of the single
\* read; the body bytes buffered at dispatch are those of the single read
\* for every request of which no proper prefix is already complete.
C8_SplitInvariance ==
    \A c \in FramingClients :
        /\ SameFramingAsSingleRead(c)
        /\ \A i \in 1..Len(dispatched[c]) :
              NoCompletePrefix(RequestOf(c)) => SameBodyAsSingleRead(c, i)

\* the POST with Content-Length: 5, sent in three segments, is dispatched as
\* one request with the body hello by an event that read its last 3 bytes
C8_Witness ==
    /\ RequestOf(1) = Req_PostHello
    /\ segs[1] = 3
    /\ Len(dispatched[1]) = 1
    /\ dispatched[1][1].read = 3
    /\ dispatched[1][1].req_type = "CONTENT_LENGTH"
    /\ BodyBytes(dispatched[1][1].request, dispatched[1][1].header_end_pos)
          = <<"h", "e", "l", "l", "o">>

(***************************************************************************)
(* Properties of the running server.                                       *)
(***************************************************************************)
\* the server has closed the connection and keeps nothing of it
ClosedAndRemoved(c) ==
    /\ c \notin open_fds
    /\ c \notin DOMAIN client_connections
    /\ c \notin DOMAIN epoll_interest
    /\ c \notin Range(pendingAccept)

\* C9: on every connection get_response, and with it a handler, is called at
\* most once; the reactor calls it with a complete request only, and never
\* keeps a connection whose stored request is complete, so it calls it
\* exactly once when the request becomes complete; after the call the
\* connection is closed and removed, whatever bytes follow the request.
C9_OneDispatchPerConnection ==
    \A c \in Clients :
        /\ Len(dispatched[c]) <= 1
        /\ dispatched[c] # <<>> => ClosedAndRemoved(c)
        /\ \A i \in 1..Len(dispatched[c]) :
              variant = "reactor"
                  => SingleRead(dispatched[c][i].request).outcome = "complete"
        /\ (c \in DOMAIN client_connections /\ loop_state = "running")
              => ~RequestIsComplete(client_connections[c])

\* two requests arrive in one buffer of the reactor: the first is answered,
\* once, and the connection is gone
C9_Witness ==
    /\ variant = "reactor"
    /\ \E c \in Clients :
          /\ RequestOf(c) = Req_Pipelined
          /\ Len(dispatched[c]) = 1
          /\ dispatched[c][1].request = Req_Pipelined
          /\ dispatched[c][1].handler = "handle_fast_check"
          /\ ClosedAndRemoved(c)

\* a read on c has returned 0 or failed while its request was not complete
FailedRead(c) == readEnd[c].cause # "none" /\ ~readEnd[c].complete

\* what the server holds of connection c
ServerSideOf(c) ==
    <<c \in open_fds,
      IF c \in DOMAIN client_connections THEN <<client_connections[c]>> ELSE <<>>,
      IF c \in DOMAIN epoll_interest THEN <<epoll_interest[c]>> ELSE <<>>,
      dispatched[c]>>

\* C10: once a read on a connection has returned 0 or failed while its
\* request was not complete, the connection is closed and removed and no
\* handler has run and no response was made for it; the step in which that
\* happens leaves the server running and the other connections as they were.
C10_FailedReadTearsDown ==
    /\ [](\A c \in Clients :
            FailedRead(c) => ClosedAndRemoved(c) /\ dispatched[c] = <<>>)
    /\ [][\A c \in Clients :
            readEnd'[c] # readEnd[c] =>
                /\ loop_state' = "running"
                /\ \A d \in Clients \ {c} : ServerSideOf(d)' = ServerSideOf(d)]_vars

\* a client connected and closed without sending anything: its connection
\* was torn down without a handler, and a request of another connection was
\* answered afterwards
C10_Witness ==
    \E c, d \in Clients :
        /\ c # d
        /\ sent[c] = 0
        /\ readEnd[c].cause = "eof"
        /\ FailedRead(c)
        /\ dispatched[c] = <<>>
        /\ ClosedAndRemoved(c)
        /\ Len(dispatched[d]) = 1
        /\ c \in dispatched[d][1].after

(***************************************************************************)
(* Properties of the framing by Content-Length.                            *)
(***************************************************************************)
\* the header block of a request whose headers are complete
HeaderBlock(request) ==
    Substr(request, 0, Find(request, Str_CRLFCRLF, 0) + 2)

\* the request declares a Content-Length that is a non-negative integer:
\* its headers are complete and the value of the header is made of digits
DeclaresNonNegativeLength(request) ==
    /\ Find(request, Str_CRLFCRLF, 0) # NPOS
    /\ LET cl == get_header_value(HeaderBlock(request), Str_ContentLength)
       IN  cl # <<>> /\ \A i \in 1..Len(cl) : IsDigit(cl[i])

\* size >= header_end + n as numbers, without the wrap of size_t; n is
\* written as NPOS is, so a negative n stands for a length of 2^63 or more,
\* which no buffer reaches
EnoughBytes(size, header_end, n) ==
    IF n < 0 THEN FALSE ELSE size >= header_end + n

\* C11: when the request declares a non-negative Content-Length n, it is
\* dispatched as complete only when at least header_end + n bytes are in
\* the buffer, and after every event that has appended bytes a connection
\* that is kept does not yet hold header_end + n bytes.
C11_FixedLengthCompletion ==
    \A c \in FramingClients :
        DeclaresNonNegativeLength(RequestOf(c)) =>
            /\ \A i \in 1..Len(dispatched[c]) :
                  dispatched[c][i].req_type = "CONTENT_LENGTH" =>
                      EnoughBytes(Len(dispatched[c][i].request),
                                  dispatched[c][i].header_end_pos,
                                  dispatched[c][i].content_length)
            /\ (c \in DOMAIN client_connections
                    /\ client_connections[c].req_type = "CONTENT_LENGTH")
                  => ~EnoughBytes(Len(client_connections[c].msg),
                                  client_connections[c].header_end_pos,
                                  client_connections[c].content_length)

\* the request has a complete header block without chunked transfer encoding
\* whose Content-Length is not a non-negative integer (abc, -1)
DeclaresMalformedLength(request) ==
    /\ Find(request, Str_CRLFCRLF, 0) # NPOS
    /\ LET te == get_header_value(HeaderBlock(request), Str_TransferEncoding)
           cl == get_header_value(HeaderBlock(request), Str_ContentLength)
       IN  /\ Find(te, Str_chunked, 0) = NPOS
           /\ cl # <<>>
           /\ \E i \in 1..Len(cl) : ~IsDigit(cl[i])

\* the server has read the header block of the request of c
HeadersRead(c) ==
    /\ c \notin Range(pendingAccept)
    /\ sent[c] - Len(rcvbuf[c]) >= Find(RequestOf(c), Str_CRLFCRLF, 0) + 4

\* C12: a request whose Content-Length is non-numeric or negative is never
\* dispatched to a handler and never ends the loop, and once its header
\* block has been read its connection is closed and removed.
C12_MalformedLengthFailsFraming ==
    \A c \in FramingClients :
        DeclaresMalformedLength(RequestOf(c)) =>
            /\ dispatched[c] = <<>>
            /\ loop_state = "running"
            /\ HeadersRead(c) => ClosedAndRemoved(c)

(***************************************************************************)
(* Properties of the chunked framing.                                      *)
(***************************************************************************)
\* 0 CR LF CR LF occurs in msg at or after header_end
TerminatorOccurs(msg, header_end) ==
    \E p \in header_end..(Len(msg) - 5) : OccursAt(msg, Str_LastChunk, p)

\* 0 CR LF CR LF occurs in msg at header_end, or later with a CR LF of the
\* body right before it
TerminatorAfterLine(msg, header_end) ==
    \E p \in header_end..(Len(msg) - 5) :
        /\ OccursAt(msg, Str_LastChunk, p)
        /\ \/ p = header_end
           \/ p - 2 >= header_end /\ OccursAt(msg, Str_CRLF, p - 2)

\* C13 as stated: a chunked request is dispatched as complete only when the
\* terminator 0 CR LF CR LF occurs in the buffer at or after header_end, and
\* a chunked connection that is kept after an event has no such occurrence.
C13_ChunkedCompleteWhereverTerminator ==
    \A c \in FramingClients :
        /\ \A i \in 1..Len(dispatched[c]) :
              dispatched[c][i].req_type = "CHUNKED" =>
                  TerminatorOccurs(dispatched[c][i].request,
                                   dispatched[c][i].header_end_pos)
        /\ (c \in DOMAIN client_connections
                /\ client_connections[c].req_type = "CHUNKED")
              => ~TerminatorOccurs(client_connections[c].msg,
                                   client_connections[c].header_end_pos)

\* C13, amended: a chunked request is dispatched as complete only when the
\* terminator occurs at header_end or occurs later right after a CR LF of
\* the body, and a chunked connection that is kept after an event has no
\* such occurrence.
C13_ChunkedCompletion ==
    \A c \in FramingClients :
        /\ \A i \in 1..Len(dispatched[c]) :
              dispatched[c][i].req_type = "CHUNKED" =>
                  TerminatorAfterLine(dispatched[c][i].request,
                                      dispatched[c][i].header_end_pos)
        /\ (c \in DOMAIN client_connections
                /\ client_connections[c].req_type = "CHUNKED")
              => ~TerminatorAfterLine(client_connections[c].msg,
                                      client_connections[c].header_end_pos)

\* the chunked request without payload, sent in three segments, is
\* dispatched by the event that brings the last bytes of the terminator,
\* which is the whole body
C13_Witness ==
    /\ RequestOf(1) = Req_ChunkedEmpty
    /\ segs[1] = 3
    /\ Len(dispatched[1]) = 1
    /\ dispatched[1][1].req_type = "CHUNKED"
    /\ dispatched[1][1].read < 5
    /\ BodyBytes(dispatched[1][1].request, dispatched[1][1].header_end_pos)
          = Str_LastChunk

(***************************************************************************)
(* Properties of the size of the buffered request.                         *)
(***************************************************************************)
\* C14: no connection's buffer is larger than MAX_REQUEST_SIZE plus one read
\* of BUFFER_SIZE bytes, and no request larger than MAX_REQUEST_SIZE is
\* passed to get_response.
C14_OversizedRequestFails ==
    \A c \in Clients :
        /\ c \in DOMAIN client_connections
              => Len(client_connections[c].msg) <= MAX_REQUEST_SIZE + BUFFER_SIZE
        /\ \A i \in 1..Len(dispatched[c]) :
              Len(dispatched[c][i].request) <= MAX_REQUEST_SIZE

(***************************************************************************)
(* Properties of the routing.                                              *)
(***************************************************************************)
\* the method and the path each request of RoutingRequests asks for
RoutingCases ==
    <<[request |-> Req_GetStatus, method |-> Str_GET, path |-> Str_status],
      [request |-> Req_GetSlow, method |-> Str_GET, path |-> Str_slow],
      [request |-> Req_PostStatus, method |-> Str_POST, path |-> Str_status],
      [request |-> Req_GetStatusCapital, method |-> Str_GET,
       path |-> <<"/", "S", "t", "a", "t", "u", "s">>],
      [request |-> Req_GetStatusSlash, method |-> Str_GET,
       path |-> <<"/", "s", "t", "a", "t", "u", "s", "/">>]>>

CaseOf(request) ==
    RoutingCases[CHOOSE i \in 1..Len(RoutingCases) :
                    RoutingCases[i].request = request]

\* the 404 response, line by line: status line, Content-Type, Content-Length,
\* the blank line and the body
NotFoundStatusLine ==
    <<"H", "T", "T", "P", "/", "1", ".", "1", SP, "4", "0", "4", SP, "N",
      "o", "t", SP, "F", "o", "u", "n", "d">>

NotFoundContentType ==
    <<"C", "o", "n", "t", "e", "n", "t", "-", "T", "y", "p", "e", ":", SP,
      "t", "e", "x", "t", "/", "p", "l", "a", "i", "n">>

NotFoundContentLength ==
    <<"C", "o", "n", "t", "e", "n", "t", "-", "L", "e", "n", "g", "t", "h",
      ":", SP, "1", "3">>

NotFoundBody ==
    <<"4", "0", "4", SP, "N", "o", "t", SP, "F", "o", "u", "n", "d">>

Fixed404Response ==
    NotFoundStatusLine \o Str_CRLF \o NotFoundContentType \o Str_CRLF
        \o NotFoundContentLength \o Str_CRLF \o Str_CRLF \o NotFoundBody

\* the routes of the table whose method and path are exactly these, by
\* their place in the order of registration
RoutesFor(table, method, path) ==
    {i \in 1..Len(table) : table[i].method = method /\ table[i].path = path}

\* C15: every call of get_response calls the handler of the first route, in
\* the order of registration, whose method and path are exactly those of
\* the request, calls no other, and returns what that handler returns; when
\* no route matches it calls no handler and returns the fixed 404 response.
C15_FirstMatchingRouteAnswers ==
    \A c \in FramingClients :
        \A i \in 1..Len(dispatched[c]) :
            LET k == CaseOf(dispatched[c][i].request)
                m == RoutesFor(routes, k.method, k.path)
            IN  IF m = {}
                  THEN /\ dispatched[c][i].handler = "none"
                       /\ dispatched[c][i].response = Fixed404Response
                  ELSE LET first == CHOOSE x \in m : \A y \in m : x <= y
                       IN  /\ dispatched[c][i].handler = routes[first].handler
                           /\ dispatched[c][i].response =
                                CallHandler(routes[first].handler,
                                            k.method, k.path).response

\* GET /status was registered twice, first with the slow handler: the
\* request GET /status is answered by the slow handler
C15_Witness ==
    /\ Len(routes) = 2
    /\ routes[1] = [method |-> Str_GET, path |-> Str_status,
                    handler |-> "handle_slow_task"]
    /\ routes[2] = [method |-> Str_GET, path |-> Str_status,
                    handler |-> "handle_fast_check"]
    /\ RequestOf(1) = Req_GetStatus
    /\ Len(dispatched[1]) = 1
    /\ dispatched[1][1].handler = "handle_slow_task"
    /\ dispatched[1][1].response = Str_SlowTaskResponse

(***************************************************************************)
(* Properties of the writing of the response.                              *)
(***************************************************************************)
\* C16: once get_response has answered a request and the server has closed
\* the connection, the bytes written to the socket are the whole response.
C16_WholeResponseWritten ==
    \A c \in Clients :
        \A i \in 1..Len(dispatched[c]) :
            c \notin open_fds => delivered[c] = dispatched[c][i].response

(***************************************************************************)
(* Properties of the server when a handler throws.                         *)
(***************************************************************************)
\* the handler called for connection c threw
HandlerThrew(c) == \E i \in 1..Len(dispatched[c]) : dispatched[c][i].thrown

\* C17: when the handler called for a connection has thrown, that
\* connection is closed and removed and the loop of the server is still
\* running (so that the other connections are still served).
C17_HandlerFailureIsContained ==
    \A c \in Clients :
        HandlerThrew(c) => ClosedAndRemoved(c) /\ loop_state = "running"

(***************************************************************************)
(* Properties of stop.                                                     *)
(***************************************************************************)
AllStopsReturned == \A t \in StopCalls : stop_pc[t] = "returned"

\* C18: once running is false the main loop exits, also when no further
\* connection and no further readiness event arrives: when every call of
\* stop has returned and the loop has not exited, the loop thread is not
\* blocked, it has a step to take without any act of a client
C18_StopEndsTheLoop ==
    (running = FALSE /\ AllStopsReturned /\ loop_state = "running")
        => ENABLED LoopStep

\* C19: however the calls of stop interleave, the listening descriptor is
\* never closed twice, and when all calls have returned running is false,
\* server_fd is -1 and the descriptor has been closed exactly once
C19_StopClosesOnce ==
    /\ listen_closes <= 1
    /\ AllStopsReturned =>
          running = FALSE /\ server_fd = NoFd /\ listen_closes = 1

(***************************************************************************)
(* Properties of get_header_value.                                         *)
(***************************************************************************)
\* the lines of a header block, without their CRLF
RECURSIVE LinesOf(_)
LinesOf(block) ==
    LET end == Find(block, Str_CRLF, 0)
    IN  IF end = NPOS THEN <<>>
        ELSE <<SubSeq(block, 1, end)>> \o LinesOf(SubSeq(block, end + 3, Len(block)))

HasColon(line) == \E i \in 1..Len(line) : line[i] = ":"

ColonOf(line) == MinOf({i \in 1..Len(line) : line[i] = ":"})

\* the text before the colon
FieldName(line) == SubSeq(line, 1, ColonOf(line) - 1)

RECURSIVE TrimLeft(_)
TrimLeft(value) ==
    IF value # <<>> /\ value[1] \in {SP, HT} THEN TrimLeft(Tail(value)) ELSE value

\* the text after the colon without its leading spaces and tabs
FieldValue(line) == TrimLeft(SubSeq(line, ColonOf(line) + 1, Len(line)))

SameIgnoringCase(a, b) ==
    Len(a) = Len(b) /\ \A i \in 1..Len(a) : ToLower(a[i]) = ToLower(b[i])

\* the value of the first line whose field name is name, or empty
ValueOfFirstField(block, name) ==
    LET lines == LinesOf(block)
        hits == {i \in 1..Len(lines) :
                    HasColon(lines[i]) /\ SameIgnoringCase(FieldName(lines[i]), name)}
    IN  IF hits = {} THEN <<>> ELSE FieldValue(lines[MinOf(hits)])

\* C20: for every block of well-formed lines and every name, both versions
\* of get_header_value return the value of the first line whose field name
\* is name up to letter case, without its leading spaces and tabs, and
\* return empty when there is no such line
C20_HeaderLookup ==
    lookup_done =>
        /\ view_value = ValueOfFirstField(lookup_headers, lookup_name)
        /\ string_value = ValueOfFirstField(lookup_headers, lookup_name)

(***************************************************************************)
(* Properties of the request line.                                         *)
(***************************************************************************)
\* the first line of a request: the bytes before the first CRLF, or all of
\* them if there is none
FirstLine(request) ==
    LET end == Find(request, Str_CRLF, 0)
    IN  IF end = NPOS THEN request ELSE SubSeq(request, 1, end)

SpacesIn(line) == Cardinality({i \in 1..Len(line) : line[i] = SP})

MalformedRequestLine(request) == SpacesIn(FirstLine(request)) < 2

\* C21: a request whose first line has fewer than two spaces is rejected:
\* it is not given to get_response, so it is not routed, no handler is
\* called for it and nothing is answered from a method and a path taken
\* from it
C21_MalformedRequestLineRejected ==
    \A c \in Clients : \A i \in 1..Len(dispatched[c]) :
        ~MalformedRequestLine(dispatched[c][i].request)

(***************************************************************************)
(* Properties of the blocking server's reads.                              *)
(***************************************************************************)
\* the bytes hold the header terminator and, when the headers declare a
\* Content-Length of digits, the whole body
FullyReceived(bytes) ==
    LET header_end == Find(bytes, Str_CRLFCRLF, 0)
    IN  /\ header_end # NPOS
        /\ DeclaresNonNegativeLength(bytes) =>
              EnoughBytes(Len(bytes), header_end + 4,
                          stoul(get_header_value(HeaderBlock(bytes),
                                                 Str_ContentLength)).value)

\* C22: the blocking server calls no handler and sends no response before
\* the header terminator and the whole declared body have been received,
\* also when the request arrives in more than one read
C22_BlockingRoutesCompleteRequests ==
    variant = "blocking" =>
        \A c \in Clients :
            /\ \A i \in 1..Len(dispatched[c]) :
                  FullyReceived(dispatched[c][i].request)
            /\ delivered[c] # <<>> => dispatched[c] # <<>>

(***************************************************************************)
(* Properties of the reactor's connection table.                           *)
(***************************************************************************)
\* the reactor is at epoll_wait
AtReadinessWait == variant = "reactor" /\ loop_state = "running"

AcceptedAndOpen ==
    {c \in Clients : /\ cstate[c] # "idle"
                     /\ c \notin Range(pendingAccept)
                     /\ dispatched[c] = <<>>
                     /\ readEnd[c].cause = "none"}

\* C24: whenever the reactor is at the readiness wait the keys of the
\* connection table are the open accepted client sockets, and the
\* descriptors registered with epoll, the only ones an event is processed
\* for, are those keys, so no event finds a descriptor without an entry
C24_TableIsTheOpenSockets ==
    AtReadinessWait =>
        /\ DOMAIN client_connections = open_fds
        /\ DOMAIN client_connections = AcceptedAndOpen
        /\ DOMAIN epoll_interest = DOMAIN client_connections

\* one connection has been closed and removed (answered or torn down) while
\* another one is still in the table
C24_Witness ==
    /\ AtReadinessWait
    /\ \E c \in Clients :
          /\ dispatched[c] # <<>> \/ readEnd[c].cause # "none"
          /\ c \notin DOMAIN client_connections
    /\ client_connections # <<>>

\* msg begins with prefix
StartsWith(msg, prefix) ==
    Len(prefix) <= Len(msg) /\ SubSeq(msg, 1, Len(prefix)) = prefix

\* C25: once the framing mode of a connection is no longer UNKNOWN, no step
\* changes its mode, its header_end_pos or its content_length as long as
\* the connection is in the table, and its buffer only grows at the end
C25_FramingIsFrozen ==
    [][\A fd \in DOMAIN client_connections \cap DOMAIN client_connections' :
          client_connections[fd].req_type # "UNKNOWN" =>
              /\ client_connections'[fd].req_type = client_connections[fd].req_type
              /\ client_connections'[fd].header_end_pos
                    = client_connections[fd].header_end_pos
              /\ client_connections'[fd].content_length
                    = client_connections[fd].content_length
              /\ StartsWith(client_connections'[fd].msg,
                            client_connections[fd].msg)]_vars

\* a connection whose framing is known holds a part of its body, its
\* request is not complete, and more bytes have arrived for the next event
C25_Witness ==
    /\ AtReadinessWait
    /\ \E fd \in DOMAIN client_connections :
          /\ client_connections[fd].req_type # "UNKNOWN"
          /\ Len(client_connections[fd].msg) > client_connections[fd].header_end_pos
          /\ epoll_interest[fd]
          /\ rcvbuf[fd] # <<>>

(***************************************************************************)
(* Properties of accepting.                                                *)
(***************************************************************************)
\* the state of a connection nothing has been read for
FreshState(d) ==
    d.req_type = "UNKNOWN" /\ d.header_end_pos = 0 /\ d.msg = <<>>

InCriticalSection ==
    {WorkerThread(w) : w \in {v \in Workers : wpc[v] \in {"enter_wait", "ub"}}}
        \cup {EnqueueThread(t) : t \in {u \in Tasks : epc[u] = "emplace"}}

\* C27: a worker that runs a task does not hold queue_mutex, at most one
\* thread is inside the critical section, and the mutex is held by that
\* thread and by no one when the section is empty: the lock is held only
\* while a task is put into or taken out of the queue
C27_LockOnlyAroundQueue ==
    /\ \A w \in Workers : wpc[w] = "exec" => queue_mutex # WorkerThread(w)
    /\ Cardinality(InCriticalSection) <= 1
    /\ \A th \in InCriticalSection : queue_mutex = th
    /\ queue_mutex # NoThread => queue_mutex \in InCriticalSection

\* while a worker runs a task, an enqueue call is inside the critical
\* section
C27_Witness ==
    \E w \in Workers, t \in Tasks :
        /\ wpc[w] = "exec"
        /\ epc[t] = "emplace"
        /\ queue_mutex = EnqueueThread(t)

(***************************************************************************)
(* read_full_request (src/http-server.cc, lines 252-328) with              *)
(* read_exact_bytes, read_request_body_chunked and read_request_body: one  *)
(* call on a blocking socket whose peer sends the first rf_len bytes of a  *)
(* request, in reads of every size, and then closes or stays silent.       *)
(***************************************************************************)

\* the header names as read_full_request passes them (lines 298 and 308)
Str_transferencoding ==
    <<"t", "r", "a", "n", "s", "f", "e", "r", "-", "e", "n", "c", "o", "d",
      "i", "n", "g">>

\* requests whose framing header is written in lower case and is not the
\* last header line: two chunks, one chunk, a size line that is no number,
\* a size line whose number ends early, and a body with a length
Req_LowerTwoChunks ==
    <<"P", "O", "S", "T", SP, "/", "e", SP, "H", "T", "T", "P", "/", "1",
      ".", "1", CR, LF, "t", "r", "a", "n", "s", "f", "e", "r", "-", "e",
      "n", "c", "o", "d", "i", "n", "g", ":", SP, "c", "h", "u", "n", "k",
      "e", "d", CR, LF, "h", "o", "s", "t", ":", SP, "x", CR, LF, CR, LF,
      "3", CR, LF, "a", "b", "c", CR, LF, "2", CR, LF, "d", "e", CR, LF,
      "0", CR, LF, CR, LF>>

Req_LowerOneChunk ==
    <<"P", "O", "S", "T", SP, "/", "e", SP, "H", "T", "T", "P", "/", "1",
      ".", "1", CR, LF, "t", "r", "a", "n", "s", "f", "e", "r", "-", "e",
      "n", "c", "o", "d", "i", "n", "g", ":", SP, "c", "h", "u", "n", "k",
      "e", "d", CR, LF, "h", "o", "s", "t", ":", SP, "x", CR, LF, CR, LF,
      "5", CR, LF, "h", "e", "l", "l", "o", CR, LF, "0", CR, LF, CR, LF>>

Req_LowerBadSize ==
    <<"P", "O", "S", "T", SP, "/", "e", SP, "H", "T", "T", "P", "/", "1",
      ".", "1", CR, LF, "t", "r", "a", "n", "s", "f", "e", "r", "-", "e",
      "n", "c", "o", "d", "i", "n", "g", ":", SP, "c", "h", "u", "n", "k",
      "e", "d", CR, LF, "h", "o", "s", "t", ":", SP, "x", CR, LF, CR, LF,
      "z", "z", CR, LF, "a", "b", "c", CR, LF, "0", CR, LF, CR, LF>>

Req_LowerHexSize ==
    <<"P", "O", "S", "T", SP, "/", "e", SP, "H", "T", "T", "P", "/", "1",
      ".", "1", CR, LF, "t", "r", "a", "n", "s", "f", "e", "r", "-", "e",
      "n", "c", "o", "d", "i", "n", "g", ":", SP, "c", "h", "u", "n", "k",
      "e", "d", CR, LF, "h", "o", "s", "t", ":", SP, "x", CR, LF, CR, LF,
      "0", "x", "A", CR, LF, "l", "o", "n", "g", "e", "r", SP, "o", "n",
      "e", CR, LF, "0", CR, LF, CR, LF>>

Req_LowerLength ==
    <<"P", "O", "S", "T", SP, "/", "e", SP, "H", "T", "T", "P", "/", "1",
      ".", "1", CR, LF, "c", "o", "n", "t", "e", "n", "t", "-", "l", "e",
      "n", "g", "t", "h", ":", SP, "5", CR, LF, "h", "o", "s", "t", ":",
      SP, "x", CR, LF, CR, LF, "h", "e", "l", "l", "o">>

Req_LowerBadLength ==
    <<"P", "O", "S", "T", SP, "/", "e", SP, "H", "T", "T", "P", "/", "1",
      ".", "1", CR, LF, "c", "o", "n", "t", "e", "n", "t", "-", "l", "e",
      "n", "g", "t", "h", ":", SP, "f", "i", "v", "e", CR, LF, "h", "o",
      "s", "t", ":", SP, "x", CR, LF, CR, LF, "h", "e", "l", "l", "o">>


\* the requests a call of read_full_request is given
ReadRequests ==
    <<Req_LowerTwoChunks, Req_LowerOneChunk, Req_LowerBadSize, Req_LowerHexSize,
      Req_LowerLength, Req_LowerBadLength, Req_ChunkedHello, Req_GetStatus>>

HexDigits ==
    <<"0", "1", "2", "3", "4", "5", "6", "7", "8", "9", "a", "b", "c", "d",
      "e", "f">>

IsHexDigit(b) == \E i \in 1..Len(HexDigits) : HexDigits[i] = ToLower(b)

HexDigitValue(b) == (CHOOSE i \in 1..Len(HexDigits) : HexDigits[i] = ToLower(b)) - 1

RECURSIVE HexValue(_)
HexValue(ds) ==
    IF ds = <<>> THEN 0
    ELSE HexValue(SubSeq(ds, 1, Len(ds) - 1)) * 16 + HexDigitValue(ds[Len(ds)])

\* std::stoul(str, nullptr, 16) (line 130): white space, a sign, an optional
\* 0x before a hex digit, then hex digits as far as they go; it throws when
\* there is no digit and when the number needs more than 64 bits.  A number
\* of more than seven digits is written as MAX_REQUEST_SIZE squared: what
\* reads it only compares it with the length of a stream, and no stream is
\* that long.
stoul_hex(str) ==
    LET n == Len(str)
        start == MinOf({i \in 0..n : i = n \/ ~IsSpace(CharAt(str, i))})
        signed == start < n /\ CharAt(str, start) \in {"+", "-"}
        afterSign == IF signed THEN start + 1 ELSE start
        prefixed == /\ afterSign + 2 < n
                    /\ CharAt(str, afterSign) = "0"
                    /\ CharAt(str, afterSign + 1) \in {"x", "X"}
                    /\ IsHexDigit(CharAt(str, afterSign + 2))
        first == IF prefixed THEN afterSign + 2 ELSE afterSign
        stop == MinOf({i \in first..n : i = n \/ ~IsHexDigit(CharAt(str, i))})
        ds == StripZeros(SubSeq(str, first + 1, stop))
    IN  IF stop = first \/ Len(ds) > 16
          THEN [thrown |-> TRUE, value |-> 0]
          ELSE [thrown |-> FALSE,
                value |-> IF \/ signed /\ CharAt(str, start) = "-" /\ ds # <<>>
                             \/ Len(ds) > 7
                            THEN MAX_REQUEST_SIZE * MAX_REQUEST_SIZE
                            ELSE HexValue(ds)]

\* the bytes the peer sends
Stream == Substr(ReadRequests[rf_req], 0, rf_len)

\* read_exact_bytes(socket_fd, buffer, count) (lines 45-56) once `taken`
\* bytes have been read: recv returns what has arrived, blocks while the
\* peer is silent, and returns 0 once the peer has closed
read_exact_bytes(taken, count) ==
    IF rf_len - taken >= count
      THEN [blocked |-> FALSE, ok |-> TRUE,
            bytes |-> Substr(Stream, taken, count), taken |-> taken + count]
      ELSE [blocked |-> ~rf_closes, ok |-> FALSE,
            bytes |-> <<>>, taken |-> rf_len]

\* lines 118-121: the size line is read byte by byte up to a CR, or up to
\* the read that fails
SizeLineRead(taken) ==
    LET cr == Find(Stream, <<CR>>, taken)
    IN  IF cr # NPOS
          THEN [blocked |-> FALSE, ok |-> TRUE,
                bytes |-> Substr(Stream, taken, cr - taken), taken |-> cr + 1]
          ELSE [blocked |-> ~rf_closes, ok |-> FALSE,
                bytes |-> Substr(Stream, taken, NPOS), taken |-> rf_len]

\* one turn of the loop of read_request_body_chunked (lines 116-152): what
\* it leaves in request_buffer, how far it has read, and how it ends:
\* "again" (next turn), "return" or "blocked" (inside a recv for ever)
ChunkTurn(buffer, taken) ==
    LET line == SizeLineRead(taken)
        lf == read_exact_bytes(line.taken, 1)
        size == stoul_hex(line.bytes)
        last == read_exact_bytes(lf.taken, 2)
        data == read_exact_bytes(lf.taken, size.value)
        crlf == read_exact_bytes(data.taken, 2)
        End(how, buf, t) == [how |-> how, buffer |-> buf, taken |-> t]
    IN  IF line.blocked THEN End("blocked", buffer, line.taken)
        ELSE IF lf.blocked THEN End("blocked", buffer, lf.taken)
        ELSE IF ~lf.ok \/ lf.bytes # <<LF>> THEN End("return", buffer, lf.taken)
        ELSE IF size.thrown THEN End("return", buffer, lf.taken)
        ELSE IF size.value = 0
          THEN IF last.blocked THEN End("blocked", buffer, last.taken)
               ELSE End("return", buffer, last.taken)
        ELSE IF data.blocked THEN End("blocked", buffer, data.taken)
        ELSE IF crlf.blocked
          THEN End("blocked", IF data.ok THEN buffer \o data.bytes ELSE buffer,
                   crlf.taken)
        ELSE End("again", IF data.ok THEN buffer \o data.bytes ELSE buffer,
                 crlf.taken)

\* lines 295-327: the buffer is cut after the header terminator and the
\* body is read as the framing headers say; the names are looked up by the
\* std::string version of get_header_value
Framing(buffer) ==
    LET delimiter_pos == Find(buffer, Str_CRLFCRLF, 0)
        headers_only == Substr(buffer, 0, delimiter_pos)
        pre_read_body_data == Substr(buffer, delimiter_pos + 4, NPOS)
        resized == Substr(buffer, 0, delimiter_pos + 4)
        te_value == get_header_value_string(headers_only, Str_transferencoding)
        cl_str == get_header_value_string(headers_only, Str_contentlength)
        content_length == stoul(cl_str)
        Go(pc, buf, n) == [pc |-> pc, buffer |-> buf, remaining |-> n]
    IN  IF Find(te_value, Str_chunked, 0) # NPOS
          THEN Go("chunked", resized \o pre_read_body_data, 0)
        ELSE IF cl_str = <<>> THEN Go("returned", resized, 0)
        ELSE IF content_length.thrown THEN Go("returned", resized, 0)
        ELSE IF Len(pre_read_body_data) >= content_length.value
          THEN Go("returned", resized \o pre_read_body_data, 0)
        ELSE Go("body", resized \o pre_read_body_data,
                content_length.value - Len(pre_read_body_data))

\* a search that starts at the old end of the buffer
SearchFromOldEnd(buffer, old_size) ==
    IF Len(buffer) >= 4 THEN Find(buffer, Str_CRLFCRLF, old_size) ELSE NPOS

\* lines 277-288: the search for the terminator after an append, from three
\* bytes before the old end of the buffer
SearchAfterAppend(buffer, old_size) ==
    IF Len(buffer) >= 4
      THEN Find(buffer, Str_CRLFCRLF, IF old_size >= 3 THEN old_size - 3 ELSE 0)
      ELSE NPOS

\* every other variable of the server
serverVars ==
    <<lookupVars, stopVars, loop_pc, routes, variant, req, cstate, sent, segs,
      rcvbuf, peer, pendingAccept, client_connections, epoll_interest, open_fds,
      nonblocking, loop_state, dispatched, delivered, readEnd>>

\* lines 262-293 and what follows a found terminator: one turn of the header
\* loop in which recv returns k bytes
RF_HeaderRead(k) ==
    /\ rf_pc = "headers"
    /\ k >= 1
    /\ k <= rf_len - rf_taken
    /\ k <= MinOf({BUFFER_SIZE, MAX_REQUEST_SIZE - Len(request_buffer)})
    /\ LET old_size == Len(request_buffer)
           appended == request_buffer \o Substr(Stream, rf_taken, k)
           delimiter_pos == SearchAfterAppend(appended, old_size)
           everywhere == Find(appended, Str_CRLFCRLF, 0)
           then == Framing(appended)
       IN  /\ rf_taken' = rf_taken + k
           /\ header_search' = [old_size |-> IF everywhere = NPOS THEN 0 ELSE old_size,
                                incremental |-> delimiter_pos,
                                whole |-> everywhere]
           /\ IF delimiter_pos = NPOS
                THEN /\ request_buffer' = appended
                     /\ rf_pc' = IF Len(appended) >= MAX_REQUEST_SIZE
                                   THEN "returned" ELSE "headers"
                     /\ UNCHANGED remaining_to_read
              ELSE IF Len(appended) >= MAX_REQUEST_SIZE
                THEN /\ request_buffer' = appended
                     /\ rf_pc' = "returned"
                     /\ UNCHANGED remaining_to_read
              ELSE /\ request_buffer' = then.buffer
                   /\ rf_pc' = then.pc
                   /\ remaining_to_read' = then.remaining
    /\ UNCHANGED <<rf_req, rf_len, rf_closes>>
    /\ UNCHANGED serverVars
    /\ UNCHANGED poolVars

\* lines 267-271: recv in the header loop when nothing more arrives: it
\* returns 0 once the peer has closed and does not return while it is silent
RF_HeaderEnd ==
    /\ rf_pc = "headers"
    /\ rf_taken = rf_len
    /\ rf_pc' = IF rf_closes THEN "returned" ELSE "blocked"
    /\ UNCHANGED <<rf_req, rf_len, rf_closes, rf_taken, request_buffer,
                   remaining_to_read, header_search>>
    /\ UNCHANGED serverVars
    /\ UNCHANGED poolVars

\* lines 116-152: one turn of the loop of read_request_body_chunked
RF_ChunkTurn ==
    /\ rf_pc = "chunked"
    /\ LET turn == ChunkTurn(request_buffer, rf_taken)
       IN  /\ request_buffer' = turn.buffer
           /\ rf_taken' = turn.taken
           /\ rf_pc' = CASE turn.how = "again" -> "chunked"
                         [] turn.how = "return" -> "returned"
                         [] OTHER -> "blocked"
    /\ UNCHANGED <<rf_req, rf_len, rf_closes, remaining_to_read, header_search>>
    /\ UNCHANGED serverVars
    /\ UNCHANGED poolVars

\* lines 172-188: one turn of the loop of read_request_body in which recv
\* returns k bytes
RF_BodyRead(k) ==
    /\ rf_pc = "body"
    /\ k >= 1
    /\ k <= rf_len - rf_taken
    /\ k <= MinOf({BUFFER_SIZE, remaining_to_read})
    /\ request_buffer' = request_buffer \o Substr(Stream, rf_taken, k)
    /\ rf_taken' = rf_taken + k
    /\ remaining_to_read' = remaining_to_read - k
    /\ rf_pc' = IF remaining_to_read - k > 0 THEN "body" ELSE "returned"
    /\ UNCHANGED <<rf_req, rf_len, rf_closes, header_search>>
    /\ UNCHANGED serverVars
    /\ UNCHANGED poolVars

\* lines 180-185: recv in the body loop when nothing more arrives
RF_BodyEnd ==
    /\ rf_pc = "body"
    /\ rf_taken = rf_len
    /\ rf_pc' = IF rf_closes THEN "returned" ELSE "blocked"
    /\ UNCHANGED <<rf_req, rf_len, rf_closes, rf_taken, request_buffer,
                   remaining_to_read, header_search>>
    /\ UNCHANGED serverVars
    /\ UNCHANGED poolVars

\* the longest short read
MaxRead == 6

\* what recv returns in one read: up to MaxRead bytes, or all that has
\* arrived
ReadSizes == (1..MaxRead) \cup {rf_len - rf_taken}

ReadFullNext ==
    \/ \E k \in ReadSizes : RF_HeaderRead(k)
    \/ RF_HeaderEnd
    \/ RF_ChunkTurn
    \/ \E k \in ReadSizes : RF_BodyRead(k)
    \/ RF_BodyEnd

\* where the header terminator of a request ends
HeadersEnd(r) == Find(ReadRequests[r], Str_CRLFCRLF, 0) + 4

\* the peer sends nothing, or stops inside the terminator or anywhere in
\* the body, or sends the whole request
StreamLengths(r) == {0, HeadersEnd(r) - 2} \cup (HeadersEnd(r)..Len(ReadRequests[r]))

ReadFullInit ==
    /\ PoolInit
    /\ NoLookup
    /\ ServerInit([c \in Clients |-> {}], {"blocking"}, {MainRoutes})
    /\ rf_req \in DOMAIN ReadRequests
    /\ rf_len \in StreamLengths(rf_req)
    /\ rf_closes \in BOOLEAN
    /\ rf_taken = 0
    /\ request_buffer = <<>>
    /\ remaining_to_read = 0
    /\ header_search = [old_size |-> 0, incremental |-> NPOS, whole |-> NPOS]
    /\ rf_pc = "headers"

ReadFullSpec == ReadFullInit /\ [][ReadFullNext]_vars

(***************************************************************************)
(* C30: after each append of the header loop, the search that starts three *)
(* bytes before the old end of the buffer finds the terminator exactly     *)
(* when a search of the whole buffer finds it, and at the same place,      *)
(* however the bytes are split into reads.                                 *)
(***************************************************************************)
C30_IncrementalSearchFindsTerminator ==
    header_search.incremental = header_search.whole

\* a terminator found by a read that began inside it
C30_Witness ==
    /\ header_search.whole # NPOS
    /\ header_search.incremental = header_search.whole
    /\ header_search.old_size > header_search.whole
    /\ header_search.old_size < header_search.whole + 4

\* the request of the call, its header block with the terminator, its body
ReadRequest == ReadRequests[rf_req]

ReadHeaders == Substr(ReadRequest, 0, HeadersEnd(rf_req))

ReadBody == Substr(ReadRequest, HeadersEnd(rf_req), NPOS)

\* the request says Transfer-Encoding: chunked, in whatever case
SaysChunked ==
    Find(get_header_value(ReadHeaders, Str_TransferEncoding), Str_chunked, 0) # NPOS

\* the payloads of a chunked body, in order, without size lines and CRLFs
RECURSIVE ChunkPayloads(_)
ChunkPayloads(body) ==
    LET eol == Find(body, Str_CRLF, 0)
        size == stoul_hex(Substr(body, 0, eol))
        next == eol + 2 + size.value + 2
    IN  IF eol = NPOS \/ size.thrown \/ size.value = 0 \/ next > Len(body)
          THEN <<>>
          ELSE Substr(body, eol + 2, size.value)
                 \o ChunkPayloads(Substr(body, next, NPOS))

\* what the call has put behind the header terminator
ReturnedBody ==
    LET delimiter_pos == Find(request_buffer, Str_CRLFCRLF, 0)
    IN  IF delimiter_pos = NPOS THEN <<>>
        ELSE Substr(request_buffer, delimiter_pos + 4, NPOS)

(***************************************************************************)
(* C28: when a chunked request has been sent whole, read_full_request      *)
(* returns, and the body it returns is the concatenation of the chunk      *)
(* payloads, however many body bytes came with the read that completed     *)
(* the headers.                                                            *)
(***************************************************************************)
C28_ChunkedBodyIsThePayloads ==
    (/\ SaysChunked
     /\ rf_len = Len(ReadRequest)
     /\ rf_pc \in {"returned", "blocked"})
        => /\ rf_pc = "returned"
           /\ ReturnedBody = ChunkPayloads(ReadBody)

\* the first size line of the body, and where the first chunk ends
FirstSizeLine == Substr(ReadBody, 0, Find(ReadBody, Str_CRLF, 0))

FirstChunkEnd ==
    HeadersEnd(rf_req) + Len(FirstSizeLine) + 2 + stoul_hex(FirstSizeLine).value + 2

\* the peer has sent a first size line that is no hexadecimal number
BadSizeLine ==
    /\ stoul_hex(FirstSizeLine).thrown
    /\ rf_len >= HeadersEnd(rf_req) + Len(FirstSizeLine) + 2

\* the peer closes inside the first chunk: in its size line, its payload or
\* the CRLF after it
ClosedInsideChunk ==
    /\ ~stoul_hex(FirstSizeLine).thrown
    /\ rf_closes
    /\ rf_len > HeadersEnd(rf_req)
    /\ rf_len < FirstChunkEnd

\* the call returns a request with its header block, as it does for a
\* request read to its end
ReportedComplete ==
    /\ rf_pc = "returned"
    /\ Find(request_buffer, Str_CRLFCRLF, 0) # NPOS

(***************************************************************************)
(* C29: a chunked request whose size line is no hexadecimal number, or     *)
(* whose peer closes inside a chunk, is not returned to the caller as a    *)
(* request.                                                                *)
(***************************************************************************)
C29_BrokenChunkIsNotReported ==
    (SaysChunked /\ (BadSizeLine \/ ClosedInsideChunk)) => ~ReportedComplete

\* the reads of one event of connection c brought bytes that completed its
\* request and then ended with recv returning 0
CompletedThenEof(c) == readEnd[c].cause = "eof" /\ readEnd[c].complete

(***************************************************************************)
(* C31: when one event reads the last bytes of a request and then the      *)
(* peer's end of stream, the request is dispatched and answered before     *)
(* the connection is torn down.                                            *)
(***************************************************************************)
C31_CompleteRequestBeforeEofIsAnswered ==
    \A c \in Clients :
        CompletedThenEof(c) => dispatched[c] # <<>> /\ delivered[c] # <<>>

\* header_end + n is below 2^64: a length of 2^63 or more is written as a
\* negative number, and so is a sum that has not wrapped
SumDoesNotWrap(header_end, n) == n < 0 => header_end + n < 0

\* at least n bytes are buffered behind the header block, on size_t values
BodyBytesBuffered(size, header_end, n) == UGreaterEq(size - header_end, n)

(***************************************************************************)
(* C32: for every declared Content-Length n that fits size_t the sum       *)
(* header_end + n of the completion test does not wrap, and no request is  *)
(* dispatched as complete with fewer than n body bytes in the buffer.      *)
(***************************************************************************)
C32_LengthSumNeverWraps ==
    \A c \in FramingClients :
        \A i \in 1..Len(dispatched[c]) :
            LET d == dispatched[c][i]
            IN  (DeclaresNonNegativeLength(RequestOf(c))
                    /\ d.req_type = "CONTENT_LENGTH")
                  => /\ SumDoesNotWrap(d.header_end_pos, d.content_length)
                     /\ BodyBytesBuffered(Len(d.request), d.header_end_pos,
                                          d.content_length)

(***************************************************************************)
(* C33: a worker calls front() and pop() only on a queue that holds a      *)
(* task: no worker reaches them with the queue empty, and every removal    *)
(* takes the first task of a non-empty queue, also after shutdown has set  *)
(* stop_flag and when more workers are woken than there are tasks.         *)
(***************************************************************************)
C33_PopOnlyFromNonEmptyQueue ==
    /\ [](\A w \in Workers : wpc[w] # "ub")
    /\ [][popOrder' # popOrder =>
            /\ tasks # <<>>
            /\ tasks' = Tail(tasks)
            /\ popOrder' = Append(popOrder, Head(tasks))]_vars

\* after shutdown has begun one worker has taken the last task while
\* another, woken as well, has yet to look at the queue
C33_Witness ==
    /\ stop_flag
    /\ tasks = <<>>
    /\ \E w1, w2 \in Workers :
          /\ w1 # w2
          /\ wpc[w1] = "exec"
          /\ wpc[w2] = "woken"

====
